---- MODULE Spec2Model ----
(***************************************************************************)
(* State-machine model of the stabilize-orm execution core:                *)
(*   - DBClient.query        (client.ts, retry loop)                       *)
(*   - DBClient.transaction  (client.ts, embedded and pooled paths)        *)
(*   - runMigrations         (migrations.ts, ledger + per-migration tx)    *)
(* Every asynchronous function is cut at its await points: one action per  *)
(* segment between two suspensions.  The database server and the driver's  *)
(* pool are the environment: a statement attempt either takes effect or    *)
(* fails without effect.                                                   *)
(***************************************************************************)
EXTENDS Integers, Sequences, FiniteSets, TLC

\* ------------------------------------------------------------------ bounds
\* largest retryAttempts value a configuration supplies
MaxRetry == 2
\* statement attempts the driver may fail in one behaviour of Spec / SpecMig
MaxFail == 2
\* statement attempts the driver may fail in one behaviour of SpecQuery
MaxQueryFail == 3
\* number of statements a transaction callback may issue
MaxStmts == 2
\* number of nested transaction() calls a callback may make
MaxNested == 1
\* longest migration list, and most up statements in one migration
MaxMigs == 2
MaxUp == 2
\* last reading of the millisecond clock
MaxTime == 1
\* Repository: operations in one behaviour, distinct column values, largest
\* version a rollback may ask for, last clock reading, statement failures
MaxOps == 4
MaxData == 2
MaxVersion == 3
MaxClock == 2
MaxRepoFail == 1
\* largest value of a `version` property read from the live table (0: none)
MaxLiveVersion == 1
\* longest statement text handed to the placeholder rewriting
MaxLen == 4
\* client lifecycle: calls made on the client, statement attempts the driver
\* may fail
MaxCalls == 3
MaxLifeFail == 1
\* connection switching: switchConnection calls, statements run between them
MaxSwitch == 2
MaxSwRuns == 2
\* savepoints: savepoint() calls, statements the driver may fail
MaxSaves == 2
MaxSaveFail == 2
\* retry backoff: largest configured retryAttempts, retryDelay and maxJitter
MaxBoRetry == 3
MaxDelay == 2
MaxJitter == 2
\* migration generator: columns a model declares
MaxCols == 2
\* type mapping: numbers tried beyond the last member of DataTypes
MaxUnknown == 2
\* Repository calls: calls, versions, data values, statement failures
MaxVerCalls == 3
MaxVerVersion == 2
MaxVerData == 2
MaxVerFail == 1
\* seeding: seeds in a graph, dependencies a seed names
MaxSeeds == 3
MaxDeps == 2
\* cache: calls of the repository in one behaviour, distinct column values
MaxCacheCalls == 4
MaxCacheData == 2
\* calls made on one client after its construction
MaxFrameCalls == 3

\* ---------------------------------------------------------------- constants
\* this.retryAttempts = config.retryAttempts || 3
DefaultRetryAttempts == 3

Tasks == {"t1", "t2"}
Conns == {"c1", "c2"}
Networked == {"postgres", "mysql"}
Dialects == Networked \cup {"sqlite"}

VARIABLES
  dialect,        \* config.type
  retryAttempts,  \* DBClient.retryAttempts
  kind,           \* what each task calls: "tx" | "query" | "migrate"
  pc,             \* position of each task inside the call
  conn,           \* connection checked out by the task's transaction ("none")
  attempt,        \* loop variable of query(): attempt number of the statement
  steps,          \* statements issued so far by the task's callback
  depth,          \* 1 while the callback is inside a nested transaction()
  caught,         \* the error caught by transaction()'s catch block
  outcome,        \* how the task's call settled
  checkedOut,     \* connections currently checked out of a pool
  inTx,           \* per connection: a server-side transaction is open
  pending,        \* per connection: uncommitted writes of the open transaction
  committed,      \* writes committed to the database
  failsLeft,      \* driver failures still available to the environment
  driverErrors,   \* the error messages the driver may raise
  \* ---- runMigrations
  migs,           \* the migration list passed to every run
  mi,             \* per run: index of the migration being processed
  curName,        \* per run: the ledger name computed for that migration
  now,            \* the millisecond clock read by new Date()
  serial,         \* runs are started one after the other
  \* ---- history variables (observations, never read by the program)
  log,            \* per task: what its transaction issued and reached, in order
  writes,         \* per task: writes whose statement succeeded
  cbThrew,        \* per task: who threw E: "no" | "outer" | "inner" callback
  stmtConns,      \* per task: connections its transaction's statements ran on
  onConn,         \* per connection: tasks that ran a statement on it since checkout
  acquired,       \* per task: number of connection checkouts
  releases,       \* per task: number of connection releases
  cbCalls,        \* per task: invocations of a callback (outer and nested)
  nested,         \* per task: transaction() calls made on the tx-scoped client
  execCount,      \* per pool-level query(): executions of its statement
  lastCause,      \* per pool-level query(): driver error of its last failed attempt
  upExec,         \* per run: up statements executed successfully
  rowsAdded,      \* per run: ledger rows inserted successfully
  skipped,        \* per run: indexes of the migrations found in the ledger
  upFailed,       \* per run: index of the migration whose up statement failed (0: none)
  priorRuns       \* per run: the runs that had resolved when it started

VARIABLES
  \* ---- Repository of a versioned model (one entity id)
  liveVersion,    \* `version` property of rows read from the live table (0: undefined)
  live,           \* committed live row of the entity
  history,        \* committed rows of <table>_history, in insertion order
  txLive,         \* live row as seen through the operation's client
  txHistory,      \* history rows as seen through the operation's client
  rpc,            \* position inside the running repository operation
  rop,            \* the running repository operation and its local values
  clock,          \* the clock read by new Date() in writeHistory
  repoFails,      \* statement failures still available to the environment
  \* ---- history variables of the repository
  opsLog,         \* operations that settled, in order, with their outcome
  preLive,        \* committed live row when the running/last operation started
  preHistory      \* committed history when the running/last operation started

VARIABLES
  \* ---- placeholder rewriting of query() and formatQuery()
  sql,            \* the statement text passed in, one entry per character
  params,         \* the parameter list passed in
  sent,           \* what query() handed to the driver
  formatted       \* what formatQuery() returned

VARIABLES
  \* ---- lifecycle of one DBClient (client.ts)
  client,              \* this.client: "db" | "pool" | "null"
  handleOpen,          \* the underlying database handle or pool is open
  endCalls,            \* close()/end() invocations on the underlying handle
  preparedStatements,  \* keys of the prepared-statement cache
  lpc,                 \* per caller: position inside its query()/close() call
  lcall,               \* per caller: the call in flight
  lifeFails,           \* statement failures still available to the environment
  \* ---- history variables of the lifecycle
  calls,               \* calls started so far
  closed,              \* close() calls that have completed
  lateEnds,            \* handle releases made by close() calls started after a completed close()
  lres                 \* per caller: how its last call settled

VARIABLES
  \* ---- the Bun-SQL DBClient with switchConnection (unnamed/part_009)
  swClient,     \* this.client: id of the handle held, 0 = null
  swKind,       \* per handle id: "none" (not created) | "db" | "sql"
  swOpen,       \* per handle id: the handle is open
  swCache,      \* this.preparedStatements: [text, handle the statement was prepared on]
  swConfig,     \* this.config
  swRetry,      \* this.retryAttempts / retryDelay / maxJitter
  swPc,         \* position of the switchConnection call in flight
  swArg,        \* its argument
  swPrev,       \* the handle held when it was called
  swDone,       \* switchConnection calls that have returned or thrown
  swLast,       \* how the last one ended
  swRuns        \* statements run

VARIABLES
  \* ---- savepoint() of the Bun-SQL DBClient (unnamed/part_009)
  spPc,         \* position inside the savepoint() call
  spName,       \* its name argument
  spLog,        \* statements the call has issued, in order (history)
  spCb,         \* how its callback settled (history)
  spErr,        \* the error caught by its catch block
  spOut,        \* how the last call settled (history)
  spCalls,      \* savepoint() calls made
  spFails       \* statement failures still available to the environment

VARIABLES
  \* ---- the retry loop of query() with its waits (client.ts)
  retryDelay,   \* DBClient.retryDelay
  maxJitter,    \* DBClient.maxJitter
  boPc,         \* position inside the query() call
  boAttempt,    \* loop variable attempt
  boExecs,      \* what each execution attempt gave, in order (history)
  boWaits,      \* delays handed to setTimeout, in order (history)
  boOut         \* how the call settled

VARIABLES
  \* ---- history variable of runMigrations
  closeCalls    \* per run: client.close() calls made by its finally block

VARIABLES
  \* ---- generateMigration (migrations.ts)
  gModel,       \* the metadata Reflect.getMetadata finds on the model argument
  gName,        \* the name argument
  gDbType,      \* the dbType argument
  gOut,         \* how the call of generateMigration settled
  gColumnDefs,  \* its local columnDefs when it returned
  gOutV1,       \* how the call of the file's first generateMigration settled
  gColumnDefsV1 \* the first generateMigration's columnDefs when it returned

VARIABLES
  \* ---- mapDataTypeToSql called on its own (migrations.ts)
  mDt,          \* the dt argument, with its runtime type
  mDbType,      \* the dbType argument
  mOut          \* how the call ended

VARIABLES
  \* ---- Repository calls, statement by statement (repository.ts)
  versioned,    \* Repository.versioned
  vLive,        \* the committed row of the entity in the live table
  vHist,        \* the committed rows of the entity in <table>_history
  vTxLive,      \* the live row as the open transaction sees it
  vTxHist,      \* the history rows as the open transaction sees them
  vPc,          \* position inside the running call
  vCall,        \* the running (or last) call and its arguments
  vErr,         \* the error on its way out of the callback
  vLog,         \* statements the running (or last) call issued, in order
  vOut,         \* how the last call settled
  vPre,         \* the committed tables when the call was made (history)
  vCalls,       \* calls made
  vFails        \* statement failures still available to the environment

VARIABLES
  \* ---- the statements of _create and _update (repository.ts)
  tsConfig,     \* MetadataStorage.getTimestamps(model)
  tsColumns,    \* the property keys of Repository.columns
  tsEntity,     \* the entity argument
  tsCreate,     \* the INSERT _create sent: its keys and params
  tsUpdate      \* the UPDATE _update sent: its keys and params

VARIABLES
  \* ---- topologicalSort (cli/stabilize-cli.ts)
  seedGraph,    \* the graph argument: the Map's entries in insertion order
  orderedSeeds  \* how the call ended: the array returned or the Error thrown

VARIABLES
  \* ---- Repository with the cache enabled
  cRow,         \* the row of the entity in the table (NoRow: no such row)
  cStore,       \* the cache: the row stored under each key (NoRow: none)
  cStrategy,    \* cache.getStrategy()
  cFound,       \* the last findOne call of the application and what it returned
  cOut,         \* how the last update or delete call ended
  cCalls,       \* calls made so far
  cChanges      \* update and delete calls completed so far

VARIABLES
  \* ---- the DBConfig object of a DBClient with migrationQuery
  fConfig,      \* the caller's config object, which the client holds as this.config
  fSupplied,    \* its fields as they were when the caller passed it in
  fClient,      \* this.client: the handle held, "null" after close
  fLog          \* the calls made on the client so far

repoVars == <<liveVersion, live, history, txLive, txHistory, rpc, rop, clock,
              repoFails, opsLog, preLive, preHistory>>
rewriteVars == <<sql, params, sent, formatted>>
lifeVars == <<client, handleOpen, endCalls, preparedStatements, lpc, lcall,
              lifeFails, calls, closed, lateEnds, lres>>
switchVars == <<swClient, swKind, swOpen, swCache, swConfig, swRetry, swPc,
                swArg, swPrev, swDone, swLast, swRuns>>
saveVars == <<spPc, spName, spLog, spCb, spErr, spOut, spCalls, spFails>>
backoffVars == <<retryDelay, maxJitter, boPc, boAttempt, boExecs, boWaits, boOut>>
obsVars == <<closeCalls>>
genVars == <<gModel, gName, gDbType, gOut, gColumnDefs, gOutV1, gColumnDefsV1>>
mapVars == <<mDt, mDbType, mOut>>
verVars == <<versioned, vLive, vHist, vTxLive, vTxHist, vPc, vCall, vErr, vLog,
             vOut, vPre, vCalls, vFails>>
stampVars == <<tsConfig, tsColumns, tsEntity, tsCreate, tsUpdate>>
topoVars == <<seedGraph, orderedSeeds>>
cacheVars == <<cRow, cStore, cStrategy, cFound, cOut, cCalls, cChanges>>
frameVars == <<fConfig, fSupplied, fClient, fLog>>
tailVars == <<mapVars, verVars, stampVars, topoVars, cacheVars, frameVars>>
lateVars == <<saveVars, backoffVars, obsVars, genVars, tailVars>>
extVars == <<repoVars, rewriteVars, lifeVars, switchVars, lateVars>>

clientVars == <<dialect, retryAttempts, kind, pc, conn, attempt, steps, depth,
                caught, outcome, checkedOut, inTx, pending, committed,
                failsLeft, driverErrors>>
migVars == <<migs, mi, curName, now, serial>>
histVars == <<log, writes, cbThrew, stmtConns, onConn, acquired, releases,
              cbCalls, nested, execCount, lastCause>>
migHist == <<upExec, rowsAdded, skipped, upFailed, priorRuns>>
coreVars == <<clientVars, migVars, histVars, migHist>>
nonRepoVars == <<coreVars, rewriteVars, lifeVars, switchVars, lateVars>>
nonRewriteVars == <<coreVars, repoVars, lifeVars, switchVars, lateVars>>
nonLifeVars == <<coreVars, repoVars, rewriteVars, switchVars, lateVars>>
nonSwitchVars == <<coreVars, repoVars, rewriteVars, lifeVars, lateVars>>
earlyVars == <<coreVars, repoVars, rewriteVars, lifeVars, switchVars>>
nonSaveVars == <<earlyVars, backoffVars, obsVars, genVars, tailVars>>
nonBackoffVars == <<earlyVars, saveVars, obsVars, genVars, tailVars>>
nonObsVars == <<repoVars, rewriteVars, lifeVars, switchVars, saveVars, backoffVars,
                genVars, tailVars>>
nonGenVars == <<earlyVars, saveVars, backoffVars, obsVars, tailVars>>
midVars == <<earlyVars, saveVars, backoffVars, obsVars, genVars>>
nonMapVars == <<midVars, verVars, stampVars, topoVars, cacheVars, frameVars>>
nonVerVars == <<midVars, mapVars, stampVars, topoVars, cacheVars, frameVars>>
nonStampVars == <<midVars, mapVars, verVars, topoVars, cacheVars, frameVars>>
nonTopoVars == <<midVars, mapVars, verVars, stampVars, cacheVars, frameVars>>
nonCacheVars == <<midVars, mapVars, verVars, stampVars, topoVars, frameVars>>
nonFrameVars == <<midVars, mapVars, verVars, stampVars, topoVars, cacheVars>>
vars == <<coreVars, extVars>>

\* ------------------------------------------------------------------ errors
\* An error value: its code, the attempt counts its message text carries,
\* and the underlying driver message it quotes.
NoError == [code |-> "none", counts |-> {}, cause |-> "none"]
\* the error the caller's callback throws
CallbackError == [code |-> "E", counts |-> {}, cause |-> "callback"]
\* new StabilizeError(`Query failed: ${(error as Error).message}`, "QUERY_ERROR")
QueryError(attempts, cause) ==
  [code |-> "QUERY_ERROR", counts |-> {}, cause |-> cause]

\* config.retryAttempts || 3   (0 stands for an absent or zero setting)
RetryAttemptsOf(configured) ==
  IF configured = 0 THEN DefaultRetryAttempts ELSE configured

Unsettled == [status |-> "pending", error |-> NoError]
Resolved == [status |-> "resolved", error |-> NoError]
Rejected(e) == [status |-> "rejected", error |-> e]

\* ------------------------------------------------------------- rows written
\* the write of the n-th statement of task t's callback
TxWrite(t, n) == [k |-> "w", s |-> t, a |-> n, b |-> 0]
\* the effect of the i-th up statement of the m-th migration of the list
UpWrite(m, i) == [k |-> "up", s |-> "", a |-> m, b |-> i]
\* a row of stabilize_migrations, keyed by its name column
LedgerRow(name) == [k |-> "row", s |-> name.s, a |-> name.a, b |-> name.b]
\* CREATE TABLE IF NOT EXISTS stabilize_migrations (...)
LedgerTable == [k |-> "table", s |-> "stabilize_migrations", a |-> 0, b |-> 0]

\* const name = migration.name || `migration_${index}_${new Date().getTime()}`
\* (index is the 0-based position in the list; m is the 1-based one)
MigrationName(migration, m, time) ==
  IF migration.name # ""
    THEN [s |-> migration.name, a |-> 0, b |-> 0]
    ELSE [s |-> "migration", a |-> m - 1, b |-> time]
NoName == [s |-> "", a |-> 0, b |-> 0]

\* Each client owns its pool (or its embedded handle).  The tasks calling
\* transaction() and query() share one client; every runMigrations call
\* constructs its own:  const client = new DBClient(config).
OwnConn(t) == IF t = "t1" THEN "c1" ELSE "c2"
PoolOf(t) == IF kind[t] = "migrate" THEN {OwnConn(t)} ELSE Conns
\* the embedded handle of the task's client (new Database(...))
HandleOf(t) == IF kind[t] = "migrate" THEN OwnConn(t) ELSE "c1"

\* --------------------------------------------------------- database server
\* What a statement does on the session of connection c when it succeeds.
\* START TRANSACTION on MySQL implicitly commits a transaction that is still
\* open on the session; BEGIN on Postgres inside an open transaction is a no-op.
InTxAfter(stmt, c) ==
  CASE stmt = "BEGIN" -> [inTx EXCEPT ![c] = TRUE]
    [] stmt \in {"COMMIT", "ROLLBACK"} -> [inTx EXCEPT ![c] = FALSE]
    [] OTHER -> inTx

PendingAfter(stmt, c, w) ==
  CASE stmt = "BEGIN" ->
         IF dialect = "mysql" THEN [pending EXCEPT ![c] = {}] ELSE pending
    [] stmt \in {"COMMIT", "ROLLBACK"} -> [pending EXCEPT ![c] = {}]
    [] OTHER -> IF inTx[c] THEN [pending EXCEPT ![c] = @ \cup {w}] ELSE pending

CommittedAfter(stmt, c, w) ==
  CASE stmt = "BEGIN" ->
         IF dialect = "mysql" THEN committed \cup pending[c] ELSE committed
    [] stmt = "COMMIT" -> committed \cup pending[c]
    [] stmt = "ROLLBACK" -> committed
    [] OTHER -> IF inTx[c] THEN committed ELSE committed \cup {w}

\* the rows a statement running on connection c reads
ReadOn(c) == committed \cup pending[c]

\* A fresh read is served by an idle connection (or the embedded handle): it
\* sees the committed rows and the rows of a transaction left open on it.
Visible(w) ==
  \/ w \in committed
  \/ \E c \in Conns \ checkedOut : w \in pending[c]

\* ------------------------------------------------------------ DBClient.query
StmtPcs == {"begin", "stmt", "commit", "rollback"}

\* the statement a task is executing at its position
StmtAt(t) ==
  CASE pc[t] = "begin" -> "BEGIN"
    [] pc[t] = "commit" -> "COMMIT"
    [] pc[t] = "rollback" -> "ROLLBACK"
    [] OTHER -> "WRITE"

\* the up statements of the migration a run is processing
UpOf(t) == migs[mi[t]].up

\* The write of the n-th statement of the task's callback.  The callback of
\* runMigrations runs migration.up in order and then inserts the ledger row.
StepWrite(t, n) ==
  IF kind[t] = "migrate"
    THEN IF n <= Len(UpOf(t)) THEN UpWrite(mi[t], n) ELSE LedgerRow(curName[t])
    ELSE TxWrite(t, n)

\* the write performed by the statement the task is executing
WriteOf(t) == StepWrite(t, steps[t])

\* the statement being executed is an up statement of a migration
IsUp(t) == kind[t] = "migrate" /\ pc[t] = "stmt" /\ steps[t] <= Len(UpOf(t))
IsLedgerInsert(t) == kind[t] = "migrate" /\ pc[t] = "stmt" /\ steps[t] > Len(UpOf(t))

\* name ... UNIQUE NOT NULL: the ledger insert finds a committed row with the
\* same name (the server rejects the statement), or a row with the same name
\* inserted by a transaction still open on another connection (the server
\* makes the statement wait for that transaction to end)
DuplicateName(t) ==
  IsLedgerInsert(t) /\ LedgerRow(curName[t]) \in committed
LockedName(t) ==
  /\ IsLedgerInsert(t)
  /\ \E c \in Conns \ {conn[t]} : LedgerRow(curName[t]) \in pending[c]
\* message of the driver's unique-constraint error
DuplicateEntry == "duplicate-entry"

\* Variant of ExecConns: the transaction's statements go through the pool
\* (this.query("BEGIN") on the pool-level client) instead of the connection
\* bound to the transaction-scoped client.
ExecConnsThroughPool(t) ==
  IF dialect = "sqlite" THEN {HandleOf(t)} ELSE PoolOf(t) \ checkedOut

\* The connections the driver may run the task's statement on: the embedded
\* handle; the connection bound to a transaction-scoped client
\* (this.client = existingClient); any idle connection for pool.query().
ExecConns(t) ==
  IF dialect = "sqlite" THEN {HandleOf(t)}
  ELSE IF conn[t] # "none" THEN {conn[t]}
  ELSE PoolOf(t) \ checkedOut

\* this.client is a pg PoolClient: the client handed to the callback of a
\* Postgres transaction, `new DBClient(this.config, this.logger, connection)`
PgTxClient(t) == dialect = "postgres" /\ conn[t] # "none"
\* message of the TypeError thrown by `const [rows] = <pg result>`
NotIterable == "not-iterable"

\* where the caller of transaction() continues once the call has settled
TxDonePc(t) == IF kind[t] = "migrate" THEN "txdone" ELSE "done"

Append1(f, t, e) == [f EXCEPT ![t] = Append(@, e)]

\* One attempt of the statement succeeds:
\*   result = ...query(query, params); return result
\* and control continues after the awaited query() call.
StmtOk(t) ==
  /\ pc[t] \in StmtPcs
  /\ ~PgTxClient(t)
  /\ ~DuplicateName(t)
  /\ ~LockedName(t)
  /\ \E c \in ExecConns(t) :
       /\ inTx' = InTxAfter(StmtAt(t), c)
       /\ pending' = PendingAfter(StmtAt(t), c, WriteOf(t))
       /\ committed' = CommittedAfter(StmtAt(t), c, WriteOf(t))
       /\ stmtConns' = [stmtConns EXCEPT ![t] = @ \cup {c}]
       /\ onConn' = [onConn EXCEPT ![c] = @ \cup {t}]
  /\ execCount' = [execCount EXCEPT ![t] = IF kind[t] = "query" THEN @ + 1 ELSE @]
  /\ attempt' = [attempt EXCEPT ![t] = 1]
  /\ upExec' = [upExec EXCEPT ![t] = IF IsUp(t) THEN @ + 1 ELSE @]
  /\ rowsAdded' = [rowsAdded EXCEPT ![t] = IF IsLedgerInsert(t) THEN @ + 1 ELSE @]
  /\ CASE pc[t] = "begin" ->
            \* const result = await callback(txClient)
            /\ pc' = [pc EXCEPT ![t] = "body"]
            /\ cbCalls' = [cbCalls EXCEPT ![t] = @ + 1]
            /\ log' = Append1(log, t, "begun")
            /\ UNCHANGED <<outcome, writes>>
       [] pc[t] = "commit" ->
            \* return result  (the finally block runs next)
            /\ pc' = [pc EXCEPT ![t] = "finally"]
            /\ outcome' = [outcome EXCEPT ![t] = Resolved]
            /\ log' = Append1(log, t, "committed")
            /\ UNCHANGED <<cbCalls, writes>>
       [] pc[t] = "rollback" ->
            \* throw error  (the finally block runs next)
            /\ pc' = [pc EXCEPT ![t] = "finally"]
            /\ outcome' = [outcome EXCEPT ![t] = Rejected(caught[t])]
            /\ log' = Append1(log, t, "rolled-back")
            /\ UNCHANGED <<cbCalls, writes>>
       [] OTHER ->
            /\ writes' = [writes EXCEPT ![t] = @ \cup {WriteOf(t)}]
            /\ IF kind[t] = "query"
                 THEN /\ pc' = [pc EXCEPT ![t] = "done"]
                      /\ outcome' = [outcome EXCEPT ![t] = Resolved]
                 ELSE /\ pc' = [pc EXCEPT ![t] = "body"]
                      /\ UNCHANGED outcome
            /\ UNCHANGED <<cbCalls, log>>
  /\ UNCHANGED <<dialect, retryAttempts, kind, conn, steps, depth, caught,
                 checkedOut, failsLeft, driverErrors, cbThrew, acquired, releases, nested,
                 lastCause, migVars, skipped, upFailed, priorRuns>>
  /\ UNCHANGED extVars

\* One attempt of the statement fails (the catch block of query()):
\*   if (attempt === this.retryAttempts) throw new StabilizeError(...)
\*   await new Promise(res => setTimeout(res, ...))   -- then the next attempt
\* The thrown error reaches transaction()'s catch block when the statement is
\* BEGIN, COMMIT or one the callback awaited on a pooled backend; a failed
\* ROLLBACK throws out of the catch block itself.
AttemptFails(t, causes) ==
  /\ execCount' = [execCount EXCEPT ![t] = IF kind[t] = "query" THEN @ + 1 ELSE @]
  /\ \E c \in ExecConns(t) :
       /\ stmtConns' = [stmtConns EXCEPT ![t] = @ \cup {c}]
       /\ onConn' = [onConn EXCEPT ![c] = @ \cup {t}]
  /\ \E e \in causes :
       /\ lastCause' = [lastCause EXCEPT ![t] = IF kind[t] = "query" THEN e ELSE @]
       /\ IF attempt[t] # retryAttempts
            THEN /\ attempt' = [attempt EXCEPT ![t] = @ + 1]
                 /\ UNCHANGED <<pc, caught, outcome, log, depth, upFailed>>
            ELSE /\ attempt' = [attempt EXCEPT ![t] = 1]
                 /\ depth' = [depth EXCEPT ![t] = 0]
                 /\ upFailed' = [upFailed EXCEPT ![t] = IF IsUp(t) THEN mi[t] ELSE @]
                 /\ CASE pc[t] = "rollback" ->
                           /\ pc' = [pc EXCEPT ![t] = "finally"]
                           /\ outcome' = [outcome EXCEPT ![t] =
                                            Rejected(QueryError(attempt[t], e))]
                           /\ UNCHANGED <<caught, log>>
                      [] pc[t] = "stmt" /\ kind[t] = "query" ->
                           /\ pc' = [pc EXCEPT ![t] = "done"]
                           /\ outcome' = [outcome EXCEPT ![t] =
                                            Rejected(QueryError(attempt[t], e))]
                           /\ UNCHANGED <<caught, log>>
                      [] pc[t] = "stmt" /\ kind[t] # "query" /\ dialect = "sqlite" ->
                           \* the callback's promise, returned by tx(), rejects
                           /\ pc' = [pc EXCEPT ![t] = TxDonePc(t)]
                           /\ outcome' = [outcome EXCEPT ![t] =
                                            Rejected(QueryError(attempt[t], e))]
                           /\ UNCHANGED <<caught, log>>
                      [] OTHER ->
                           \* catch (error) { await txClient.query("ROLLBACK"); ...
                           /\ pc' = [pc EXCEPT ![t] = "rollback"]
                           /\ caught' = [caught EXCEPT ![t] = QueryError(attempt[t], e)]
                           /\ log' = [log EXCEPT ![t] = @ \o <<"ERROR", "ROLLBACK">>]
                           /\ UNCHANGED outcome
  /\ UNCHANGED <<dialect, retryAttempts, kind, conn, steps, checkedOut,
                 writes, cbThrew, acquired, releases,
                 cbCalls, nested, driverErrors, migVars, upExec, rowsAdded, skipped, priorRuns>>
  /\ UNCHANGED extVars

\* Variant of StmtFail: a failed attempt of COMMIT or of a statement of the
\* callback restarts the unit of work, so the callback is invoked again.
StmtFailRerunsCallback(t) ==
  /\ pc[t] \in StmtPcs
  /\ failsLeft > 0
  /\ failsLeft' = failsLeft - 1
  /\ UNCHANGED <<inTx, pending, committed>>
  /\ IF kind[t] = "tx" /\ pc[t] \in {"stmt", "commit"} /\ dialect \in {"mysql", "postgres"}
       THEN /\ pc' = [pc EXCEPT ![t] = "body"]
            /\ cbCalls' = [cbCalls EXCEPT ![t] = @ + 1]
            /\ steps' = [steps EXCEPT ![t] = 0]
            /\ log' = Append1(log, t, "RETRY")
            /\ UNCHANGED <<dialect, retryAttempts, kind, conn, attempt, depth,
                           caught, outcome, checkedOut, driverErrors, writes,
                           cbThrew, stmtConns, onConn, acquired, releases,
                           nested, execCount, lastCause, migVars, migHist>>
            /\ UNCHANGED extVars
       ELSE AttemptFails(t, driverErrors)

\* the driver fails the attempt: the statement has no effect
StmtFail(t) ==
  /\ pc[t] \in StmtPcs
  /\ failsLeft > 0
  /\ failsLeft' = failsLeft - 1
  /\ AttemptFails(t, driverErrors)
  /\ UNCHANGED <<inTx, pending, committed>>

\* An attempt on the transaction-scoped client of a Postgres transaction.  A
\* pg PoolClient has both `query` and `release`, so query() takes the branch
\* written for mysql2:  const [rows] = await this.client.query(query, params).
\* The statement runs on the server, then destructuring pg's result object
\* throws a TypeError inside the try, and the attempt counts as failed.
PgTxStmt(t) ==
  /\ pc[t] \in StmtPcs
  /\ PgTxClient(t)
  /\ inTx' = InTxAfter(StmtAt(t), conn[t])
  /\ pending' = PendingAfter(StmtAt(t), conn[t], WriteOf(t))
  /\ committed' = CommittedAfter(StmtAt(t), conn[t], WriteOf(t))
  /\ AttemptFails(t, {NotIterable})
  /\ UNCHANGED failsLeft

\* An attempt of the ledger insert is rejected by the UNIQUE constraint on
\* the name column: the statement has no effect and the attempt fails.
UniqueViolation(t) ==
  /\ pc[t] \in StmtPcs
  /\ ~PgTxClient(t)
  /\ DuplicateName(t)
  /\ AttemptFails(t, {DuplicateEntry})
  /\ UNCHANGED <<inTx, pending, committed, failsLeft>>

\* query() called on the pool-level client, outside any transaction.
Query(t) ==
  /\ kind[t] = "query"
  /\ pc[t] = "idle"
  /\ pc' = [pc EXCEPT ![t] = "stmt"]
  /\ UNCHANGED <<dialect, retryAttempts, kind, conn, attempt, steps, depth,
                 caught, outcome, checkedOut, inTx, pending, committed,
                 failsLeft, driverErrors, migVars, histVars, migHist>>
  /\ UNCHANGED extVars

\* -------------------------------------------------- DBClient.transaction
TxKinds == {"tx", "migrate"}

\* the callback has statements left to issue
CanIssue(t) ==
  IF kind[t] = "migrate" THEN steps[t] < Len(UpOf(t)) + 1 ELSE steps[t] < MaxStmts

\* Variant of Checkout: the callback is invoked without BEGIN being issued.
CheckoutWithoutBegin(t) ==
  /\ kind[t] \in TxKinds
  /\ pc[t] = "txstart"
  /\ dialect \in Networked
  /\ \E c \in PoolOf(t) \ checkedOut :
       /\ checkedOut' = checkedOut \cup {c}
       /\ conn' = [conn EXCEPT ![t] = c]
       /\ onConn' = [onConn EXCEPT ![c] = {}]
  /\ acquired' = [acquired EXCEPT ![t] = @ + 1]
  /\ pc' = [pc EXCEPT ![t] = "body"]
  /\ steps' = [steps EXCEPT ![t] = 0]
  /\ cbCalls' = [cbCalls EXCEPT ![t] = @ + 1]
  /\ UNCHANGED <<dialect, retryAttempts, kind, attempt, depth, caught,
                 outcome, inTx, pending, committed, failsLeft, driverErrors,
                 log, writes, cbThrew, stmtConns, releases, nested, execCount,
                 lastCause, migVars, migHist>>
  /\ UNCHANGED extVars

\* Pooled backends, on the pool-level client:
\*   const connection = await this.client.getConnection()   (or .connect())
\*   const txClient = new DBClient(this.config, this.logger, connection)
\*   try { await txClient.query("BEGIN") ...
Checkout(t) ==
  /\ kind[t] \in TxKinds
  /\ pc[t] = "txstart"
  /\ dialect \in Networked
  /\ \E c \in PoolOf(t) \ checkedOut :
       /\ checkedOut' = checkedOut \cup {c}
       /\ conn' = [conn EXCEPT ![t] = c]
       /\ onConn' = [onConn EXCEPT ![c] = {}]
  /\ acquired' = [acquired EXCEPT ![t] = @ + 1]
  /\ pc' = [pc EXCEPT ![t] = "begin"]
  /\ steps' = [steps EXCEPT ![t] = 0]
  /\ log' = Append1(log, t, "BEGIN")
  /\ UNCHANGED <<dialect, retryAttempts, kind, attempt, depth, caught,
                 outcome, inTx, pending, committed, failsLeft, driverErrors, writes, cbThrew,
                 stmtConns, releases, cbCalls, nested, execCount, lastCause,
                 migVars, migHist>>
  /\ UNCHANGED extVars

\* The callback awaits txClient.query(<its next statement>).
CbQuery(t) ==
  /\ kind[t] \in TxKinds
  /\ pc[t] = "body"
  /\ CanIssue(t)
  /\ steps' = [steps EXCEPT ![t] = @ + 1]
  /\ pc' = [pc EXCEPT ![t] = "stmt"]
  /\ log' = Append1(log, t, "STMT")
  /\ UNCHANGED <<dialect, retryAttempts, kind, conn, attempt, depth, caught,
                 outcome, checkedOut, inTx, pending, committed, failsLeft, driverErrors,
                 writes, cbThrew, stmtConns, onConn, acquired, releases,
                 cbCalls, nested, execCount, lastCause, migVars, migHist>>
  /\ UNCHANGED extVars

\* The callback (or the callback of a nested transaction() call, whose
\* rejection the outer callback awaits) throws E.  On a pooled backend the
\* catch block issues ROLLBACK; on the embedded backend the promise returned
\* by tx() rejects.
CbThrow(t) ==
  /\ kind[t] = "tx"
  /\ pc[t] = "body"
  /\ cbThrew' = [cbThrew EXCEPT ![t] = IF depth[t] = 1 THEN "inner" ELSE "outer"]
  /\ depth' = [depth EXCEPT ![t] = 0]
  /\ IF dialect \in Networked
       THEN /\ pc' = [pc EXCEPT ![t] = "rollback"]
            /\ caught' = [caught EXCEPT ![t] = CallbackError]
            /\ log' = [log EXCEPT ![t] = @ \o <<"ERROR", "ROLLBACK">>]
            /\ UNCHANGED outcome
       ELSE /\ pc' = [pc EXCEPT ![t] = TxDonePc(t)]
            /\ outcome' = [outcome EXCEPT ![t] = Rejected(CallbackError)]
            /\ UNCHANGED <<caught, log>>
  /\ UNCHANGED <<dialect, retryAttempts, kind, conn, attempt, steps,
                 checkedOut, inTx, pending, committed, failsLeft, driverErrors, writes,
                 stmtConns, onConn, acquired, releases, cbCalls, nested,
                 execCount, lastCause, migVars, migHist>>
  /\ UNCHANGED extVars

\* The callback returns: await txClient.query("COMMIT") on a pooled backend;
\* on the embedded backend the promise returned by tx() resolves.
CbReturn(t) ==
  /\ kind[t] \in TxKinds
  /\ pc[t] = "body"
  /\ depth[t] = 0
  /\ kind[t] = "migrate" => ~CanIssue(t)
  /\ IF dialect \in Networked
       THEN /\ pc' = [pc EXCEPT ![t] = "commit"]
            /\ log' = [log EXCEPT ![t] = @ \o <<"RETURN", "COMMIT">>]
            /\ UNCHANGED outcome
       ELSE /\ pc' = [pc EXCEPT ![t] = TxDonePc(t)]
            /\ outcome' = [outcome EXCEPT ![t] = Resolved]
            /\ UNCHANGED log
  /\ UNCHANGED <<dialect, retryAttempts, kind, conn, attempt, steps, depth,
                 caught, checkedOut, inTx, pending, committed, failsLeft, driverErrors,
                 writes, cbThrew, stmtConns, onConn, acquired, releases,
                 cbCalls, nested, execCount, lastCause, migVars, migHist>>
  /\ UNCHANGED extVars

\* Variant of NestedTransaction: the isTransactionClient test is missing, so
\* the nested call takes the pooled path: it checks out a connection of its
\* own and issues BEGIN on it.
NestedTransactionStacked(t) ==
  /\ kind[t] = "tx"
  /\ pc[t] = "body"
  /\ dialect \in Networked
  /\ depth[t] = 0
  /\ nested[t] < MaxNested
  /\ nested' = [nested EXCEPT ![t] = @ + 1]
  /\ \E c \in PoolOf(t) \ checkedOut :
       /\ checkedOut' = checkedOut \cup {c}
       /\ conn' = [conn EXCEPT ![t] = c]
       /\ onConn' = [onConn EXCEPT ![c] = {}]
  /\ acquired' = [acquired EXCEPT ![t] = @ + 1]
  /\ pc' = [pc EXCEPT ![t] = "begin"]
  /\ log' = Append1(log, t, "BEGIN")
  /\ UNCHANGED <<dialect, retryAttempts, kind, attempt, steps, depth, caught,
                 outcome, inTx, pending, committed, failsLeft, driverErrors,
                 writes, cbThrew, stmtConns, releases, cbCalls, execCount,
                 lastCause, migVars, migHist>>
  /\ UNCHANGED extVars

\* The callback calls txClient.transaction(inner) on the transaction-scoped
\* client:  if (this.isTransactionClient) return callback(this);
NestedTransaction(t) ==
  /\ kind[t] = "tx"
  /\ pc[t] = "body"
  /\ dialect \in Networked
  /\ depth[t] = 0
  /\ nested[t] < MaxNested
  /\ nested' = [nested EXCEPT ![t] = @ + 1]
  /\ cbCalls' = [cbCalls EXCEPT ![t] = @ + 1]
  /\ depth' = [depth EXCEPT ![t] = 1]
  /\ UNCHANGED <<dialect, retryAttempts, kind, pc, conn, attempt, steps,
                 caught, outcome, checkedOut, inTx, pending, committed,
                 failsLeft, driverErrors, log, writes, cbThrew, stmtConns, onConn, acquired,
                 releases, execCount, lastCause, migVars, migHist>>
  /\ UNCHANGED extVars

\* The inner callback returns and the outer callback continues.
NestedReturn(t) ==
  /\ kind[t] = "tx"
  /\ pc[t] = "body"
  /\ depth[t] = 1
  /\ depth' = [depth EXCEPT ![t] = 0]
  /\ UNCHANGED <<dialect, retryAttempts, kind, pc, conn, attempt, steps,
                 caught, outcome, checkedOut, inTx, pending, committed,
                 failsLeft, driverErrors, migVars, histVars, migHist>>
  /\ UNCHANGED extVars

\* Variant of Release: the connection is released at the end of the try
\* block instead of in a finally block, so only when the call resolves.
ReleaseOnSuccessOnly(t) ==
  /\ pc[t] = "finally"
  /\ IF outcome[t].status = "resolved"
       THEN /\ checkedOut' = checkedOut \ {conn[t]}
            /\ releases' = [releases EXCEPT ![t] = @ + 1]
            /\ conn' = [conn EXCEPT ![t] = "none"]
       ELSE UNCHANGED <<checkedOut, releases, conn>>
  /\ pc' = [pc EXCEPT ![t] = TxDonePc(t)]
  /\ UNCHANGED <<dialect, retryAttempts, kind, attempt, steps, depth, caught,
                 outcome, inTx, pending, committed, failsLeft, driverErrors,
                 log, writes, cbThrew, stmtConns, onConn, acquired, cbCalls,
                 nested, execCount, lastCause, migVars, migHist>>
  /\ UNCHANGED extVars

\* finally { connection.release(); }  and the call settles.
Release(t) ==
  /\ pc[t] = "finally"
  /\ checkedOut' = checkedOut \ {conn[t]}
  /\ releases' = [releases EXCEPT ![t] = @ + 1]
  /\ conn' = [conn EXCEPT ![t] = "none"]
  /\ pc' = [pc EXCEPT ![t] = TxDonePc(t)]
  /\ UNCHANGED <<dialect, retryAttempts, kind, attempt, steps, depth, caught,
                 outcome, inTx, pending, committed, failsLeft, driverErrors, log, writes,
                 cbThrew, stmtConns, onConn, acquired, cbCalls, nested,
                 execCount, lastCause, migVars, migHist>>
  /\ UNCHANGED extVars

\* Embedded backend:
\*   const tx = this.client.transaction(() => callback(this)); return tx();
\* The native wrapper runs BEGIN, calls the function and runs COMMIT as soon as
\* the function returns.  The function returns the promise of the async
\* callback at the callback's first suspension: by then the callback has run
\* at most the first attempt of its first statement (stmt.all is synchronous).
\* Whatever the callback does after that suspension runs outside the wrapper.
SqliteTransaction(t) ==
  /\ kind[t] \in TxKinds
  /\ pc[t] = "txstart"
  /\ dialect = "sqlite"
  /\ cbCalls' = [cbCalls EXCEPT ![t] = @ + 1]
  /\ \/ \* the callback's first statement succeeds at once, inside the wrapper
        /\ kind[t] = "tx" => MaxStmts > 0
        /\ steps' = [steps EXCEPT ![t] = 1]
        /\ committed' = committed \cup {StepWrite(t, 1)}
        /\ writes' = [writes EXCEPT ![t] = @ \cup {StepWrite(t, 1)}]
        /\ upExec' = [upExec EXCEPT ![t] =
                        IF kind[t] = "migrate" /\ Len(UpOf(t)) > 0 THEN @ + 1 ELSE @]
        /\ rowsAdded' = [rowsAdded EXCEPT ![t] =
                        IF kind[t] = "migrate" /\ Len(UpOf(t)) = 0 THEN @ + 1 ELSE @]
        /\ stmtConns' = [stmtConns EXCEPT ![t] = @ \cup {HandleOf(t)}]
        /\ log' = [log EXCEPT ![t] = @ \o <<"BEGIN", "STMT", "COMMIT", "committed">>]
        /\ pc' = [pc EXCEPT ![t] = "body"]
        /\ UNCHANGED <<attempt, outcome, failsLeft, cbThrew, upFailed>>
     \/ \* its first attempt fails: query() suspends in the backoff wait, or
        \* rejects when retryAttempts is 1
        /\ kind[t] = "tx" => MaxStmts > 0
        /\ failsLeft > 0
        /\ failsLeft' = failsLeft - 1
        /\ steps' = [steps EXCEPT ![t] = 1]
        /\ stmtConns' = [stmtConns EXCEPT ![t] = @ \cup {HandleOf(t)}]
        /\ log' = [log EXCEPT ![t] = @ \o <<"BEGIN", "STMT", "COMMIT", "committed">>]
        /\ \E e \in driverErrors :
             IF retryAttempts = 1
               THEN /\ pc' = [pc EXCEPT ![t] = TxDonePc(t)]
                    /\ outcome' = [outcome EXCEPT ![t] = Rejected(QueryError(1, e))]
                    /\ upFailed' = [upFailed EXCEPT ![t] =
                          IF kind[t] = "migrate" /\ Len(UpOf(t)) > 0 THEN mi[t] ELSE @]
                    /\ UNCHANGED attempt
               ELSE /\ pc' = [pc EXCEPT ![t] = "stmt"]
                    /\ attempt' = [attempt EXCEPT ![t] = 2]
                    /\ UNCHANGED <<outcome, upFailed>>
        /\ UNCHANGED <<committed, writes, cbThrew, upExec, rowsAdded>>
     \/ \* the callback throws before awaiting anything: its promise rejects
        /\ kind[t] = "tx"
        /\ cbThrew' = [cbThrew EXCEPT ![t] = "outer"]
        /\ log' = [log EXCEPT ![t] = @ \o <<"BEGIN", "COMMIT", "committed">>]
        /\ pc' = [pc EXCEPT ![t] = "done"]
        /\ outcome' = [outcome EXCEPT ![t] = Rejected(CallbackError)]
        /\ UNCHANGED <<attempt, steps, failsLeft, committed, writes, stmtConns,
                       upExec, rowsAdded, upFailed>>
     \/ \* the callback returns without awaiting anything
        /\ kind[t] = "tx"
        /\ log' = [log EXCEPT ![t] = @ \o <<"BEGIN", "COMMIT", "committed">>]
        /\ pc' = [pc EXCEPT ![t] = "done"]
        /\ outcome' = [outcome EXCEPT ![t] = Resolved]
        /\ UNCHANGED <<attempt, steps, failsLeft, committed, writes, cbThrew,
                       stmtConns, upExec, rowsAdded, upFailed>>
  /\ UNCHANGED <<dialect, retryAttempts, kind, conn, depth, caught, checkedOut,
                 inTx, pending, onConn, acquired, releases, nested, execCount,
                 lastCause, driverErrors, migVars, skipped, priorRuns>>
  /\ UNCHANGED extVars

\* ------------------------------------------------------------ runMigrations
\* Loop head of  for (const [index, migration] of migrations.entries()):
\* the position, index and ledger name of a run that moves on to migration m.
\* new Date().getTime() is read for the name; the clock never runs backwards.
NextPc(m) == IF m > Len(migs) THEN "close" ELSE "lookup"
NextName(m, time) ==
  IF m > Len(migs) THEN NoName ELSE MigrationName(migs[m], m, time)
\* the run moves on to migration m of the list, reading the clock
Advance(t, m) ==
  /\ pc' = [pc EXCEPT ![t] = NextPc(m)]
  /\ mi' = [mi EXCEPT ![t] = m]
  /\ IF m > Len(migs)
       THEN /\ curName' = [curName EXCEPT ![t] = NoName]
            /\ UNCHANGED now
       ELSE \E time \in now..MaxTime :
              /\ now' = time
              /\ curName' = [curName EXCEPT ![t] = NextName(m, time)]

\* const client = new DBClient(config);
\* await client.query(getMigrationsTableSQL(dbType));
RunMigrations(t) ==
  /\ kind[t] = "migrate"
  /\ pc[t] = "idle"
  /\ serial => \A u \in Tasks \ {t} : pc[u] \in {"idle", "done"}
  /\ pc' = [pc EXCEPT ![t] = "ledger"]
  /\ priorRuns' = [priorRuns EXCEPT ![t] =
                     {u \in Tasks : pc[u] = "done" /\ outcome[u].status = "resolved"}]
  /\ UNCHANGED <<dialect, retryAttempts, kind, conn, attempt, steps, depth,
                 caught, outcome, checkedOut, inTx, pending, committed,
                 failsLeft, driverErrors, migVars, histVars, upExec, rowsAdded, skipped,
                 upFailed>>
  /\ UNCHANGED extVars

\* An attempt of the ledger CREATE TABLE or of the ledger lookup succeeds.
\*   const applied = await client.query(selectQuery, [name]);
\*   if (applied.length === 0) { await client.transaction(...) }
MigQueryOk(t) ==
  /\ kind[t] = "migrate"
  /\ pc[t] \in {"ledger", "lookup"}
  /\ attempt' = [attempt EXCEPT ![t] = 1]
  /\ \E c \in ExecConns(t) :
       /\ onConn' = [onConn EXCEPT ![c] = @ \cup {t}]
       /\ IF pc[t] = "ledger"
            THEN /\ pending' = PendingAfter("WRITE", c, LedgerTable)
                 /\ committed' = CommittedAfter("WRITE", c, LedgerTable)
                 /\ Advance(t, 1)
                 /\ UNCHANGED skipped
            ELSE /\ UNCHANGED <<pending, committed>>
                 /\ IF LedgerRow(curName[t]) \in ReadOn(c)
                      THEN /\ skipped' = [skipped EXCEPT ![t] = @ \cup {mi[t]}]
                           /\ Advance(t, mi[t] + 1)
                      ELSE /\ pc' = [pc EXCEPT ![t] = "txstart"]
                           /\ UNCHANGED <<mi, curName, now, skipped>>
  /\ UNCHANGED <<dialect, retryAttempts, kind, conn, steps, depth, caught,
                 outcome, checkedOut, inTx, failsLeft, driverErrors, migs, serial, log,
                 writes, cbThrew, stmtConns, acquired, releases, cbCalls,
                 nested, execCount, lastCause, upExec, rowsAdded, upFailed,
                 priorRuns>>
  /\ UNCHANGED extVars

\* Variant of MigQueryFail: the rejection leaves runMigrations without the
\* finally block.
MigQueryFailNoFinally(t) ==
  /\ kind[t] = "migrate"
  /\ pc[t] \in {"ledger", "lookup"}
  /\ failsLeft > 0
  /\ failsLeft' = failsLeft - 1
  /\ \E c \in ExecConns(t) : onConn' = [onConn EXCEPT ![c] = @ \cup {t}]
  /\ \E e \in driverErrors :
       IF attempt[t] # retryAttempts
         THEN /\ attempt' = [attempt EXCEPT ![t] = @ + 1]
              /\ UNCHANGED <<pc, outcome>>
         ELSE /\ attempt' = [attempt EXCEPT ![t] = 1]
              /\ pc' = [pc EXCEPT ![t] = "done"]
              /\ outcome' = [outcome EXCEPT ![t] = Rejected(QueryError(attempt[t], e))]
  /\ UNCHANGED <<dialect, retryAttempts, kind, conn, steps, depth, caught,
                 checkedOut, inTx, pending, committed, driverErrors, migVars, log, writes,
                 cbThrew, stmtConns, acquired, releases, cbCalls, nested,
                 execCount, lastCause, migHist>>
  /\ UNCHANGED extVars

\* An attempt of the ledger CREATE TABLE or of the ledger lookup fails; after
\* the last attempt query() throws:
\*   catch (error) { console.error(...); throw error; } finally { close }
MigQueryFail(t) ==
  /\ kind[t] = "migrate"
  /\ pc[t] \in {"ledger", "lookup"}
  /\ failsLeft > 0
  /\ failsLeft' = failsLeft - 1
  /\ \E c \in ExecConns(t) : onConn' = [onConn EXCEPT ![c] = @ \cup {t}]
  /\ \E e \in driverErrors :
       IF attempt[t] # retryAttempts
         THEN /\ attempt' = [attempt EXCEPT ![t] = @ + 1]
              /\ UNCHANGED <<pc, outcome>>
         ELSE /\ attempt' = [attempt EXCEPT ![t] = 1]
              /\ pc' = [pc EXCEPT ![t] = "close"]
              /\ outcome' = [outcome EXCEPT ![t] = Rejected(QueryError(attempt[t], e))]
  /\ UNCHANGED <<dialect, retryAttempts, kind, conn, steps, depth, caught,
                 checkedOut, inTx, pending, committed, driverErrors, migVars, log, writes,
                 cbThrew, stmtConns, acquired, releases, cbCalls, nested,
                 execCount, lastCause, migHist>>
  /\ UNCHANGED extVars

\* await client.transaction(...) has settled: the loop moves on to the next
\* migration, or the rejection leaves the loop through catch and finally.
MigrationSettled(t) ==
  /\ kind[t] = "migrate"
  /\ pc[t] = "txdone"
  /\ IF outcome[t].status = "rejected"
       THEN /\ pc' = [pc EXCEPT ![t] = "close"]
            /\ UNCHANGED <<outcome, mi, curName, now>>
       ELSE /\ Advance(t, mi[t] + 1)
            /\ outcome' = [outcome EXCEPT ![t] = Unsettled]
  /\ UNCHANGED <<dialect, retryAttempts, kind, conn, attempt, steps, depth,
                 caught, checkedOut, inTx, pending, committed, failsLeft, driverErrors, migs,
                 serial, histVars, migHist>>
  /\ UNCHANGED extVars

\* finally { await client.close(); } : the pool is ended, the server ends its
\* sessions and discards a transaction left open on them.
Close(t) ==
  /\ kind[t] = "migrate"
  /\ pc[t] = "close"
  /\ pc' = [pc EXCEPT ![t] = "done"]
  /\ outcome' = [outcome EXCEPT ![t] = IF @.status = "pending" THEN Resolved ELSE @]
  /\ inTx' = [c \in Conns |-> IF c \in PoolOf(t) THEN FALSE ELSE inTx[c]]
  /\ pending' = [c \in Conns |-> IF c \in PoolOf(t) THEN {} ELSE pending[c]]
  /\ UNCHANGED <<dialect, retryAttempts, kind, conn, attempt, steps, depth,
                 caught, checkedOut, committed, failsLeft, driverErrors, migVars, histVars,
                 migHist>>
  /\ closeCalls' = [closeCalls EXCEPT ![t] = @ + 1]
  /\ UNCHANGED nonObsVars

\* --------------------------------------------------------------- Repository
\* A versioned model with one entity id.  A row of the live table is its
\* column snapshot; `version` is not a column of the model (writeHistory adds
\* its own version column to the snapshot columns), so what an operation
\* reads as before.version / result.version is liveVersion, which no
\* statement of the repository changes.
Data == 1..MaxData
NoRow == [present |-> FALSE, data |-> 0]
LiveRow(d) == [present |-> TRUE, data |-> d]
\* the row writeHistory inserts: valid_from = now, valid_to = NULL
HistoryRow(operation, version, d, time) ==
  [op |-> operation, version |-> version, data |-> d,
   valid_from |-> time, valid_to |-> "NULL"]
NoOp == [name |-> "none", tag |-> "none", data |-> 0, hver |-> 0, target |-> 0]
OpNames == {"create", "update", "delete", "upsert", "rollback"}

\* entity.version || 1
VersionOrOne(v) == IF v # 0 THEN v ELSE 1
\* before.version ? before.version + 1 : 1
NextVersion(v) == IF v # 0 THEN v + 1 ELSE 1

\* SELECT * FROM <history> WHERE id = ? AND version = ? LIMIT 1 : the rows the
\* statement may return (no ORDER BY: any matching row)
RowsOfVersion(h, v) == {i \in 1..Len(h) : h[i].version = v}

\* SELECT * FROM <history> WHERE id = ? AND valid_from <= ? AND
\* (valid_to IS NULL OR valid_to > ?) ORDER BY version DESC LIMIT 1 :
\* the indexes of the rows asOf may return; {0} stands for null
ValidAt(h, date) ==
  {i \in 1..Len(h) :
     /\ h[i].valid_from <= date
     /\ (IF h[i].valid_to = "NULL" THEN TRUE ELSE h[i].valid_to > date)}
asOf(h, date) ==
  LET m == ValidAt(h, date) IN
    IF m = {} THEN {0}
    ELSE {i \in m : \A j \in m : h[j].version <= h[i].version}

\* SELECT * FROM <history> WHERE id = ? ORDER BY version ASC : the orders in
\* which the rows may be returned (rows of equal version in any order)
Orders(n) == {p \in [1..n -> 1..n] : \A i, j \in 1..n : i # j => p[i] # p[j]}
historyOf(h) ==
  {[i \in 1..Len(h) |-> h[p[i]]] :
     p \in {q \in Orders(Len(h)) :
              \A i, j \in 1..Len(h) : i < j => h[q[i]].version <= h[q[j]].version}}

\* An operation starts: client.transaction(async (txClient) => ...).  On a
\* networked client BEGIN opens a transaction on the checked-out connection;
\* on SQLite the native wrapper has committed (an empty transaction) when the
\* callback first awaits, before its first write.
StartOp(op) ==
  /\ rpc = "idle"
  /\ Len(opsLog) < MaxOps
  /\ rop' = op
  /\ rpc' = "write"
  /\ preLive' = live
  /\ preHistory' = history
  /\ UNCHANGED <<liveVersion, live, history, txLive, txHistory, clock,
                 repoFails, opsLog, nonRepoVars>>

\* The callback throws before any write (*_ERROR): ROLLBACK, the call rejects.
RejectOp(name) ==
  /\ rpc = "idle"
  /\ Len(opsLog) < MaxOps
  /\ opsLog' = Append(opsLog, [name |-> name, ok |-> FALSE, target |-> 0])
  /\ preLive' = live
  /\ preHistory' = history
  /\ UNCHANGED <<liveVersion, live, history, txLive, txHistory, rpc, rop,
                 clock, repoFails, nonRepoVars>>

\* create(entity): _create inserts the row, writeHistory(result, "insert")
Create ==
  /\ ~live.present
  /\ history = <<>>
  /\ \E d \in Data :
       StartOp([name |-> "create", tag |-> "insert", data |-> d,
                hver |-> VersionOrOne(liveVersion), target |-> 0])

\* update(id, entity): before = findOne(id); _update;
\* writeHistory({...before, ...entity, version: before.version ? +1 : 1}, "update")
Update ==
  IF live.present
    THEN \E d \in Data :
           StartOp([name |-> "update", tag |-> "update", data |-> d,
                    hver |-> NextVersion(liveVersion), target |-> 0])
    ELSE RejectOp("update")

\* delete(id): before = findOne(id); _delete; writeHistory(before, "delete")
Delete ==
  IF live.present
    THEN StartOp([name |-> "delete", tag |-> "delete", data |-> live.data,
                  hver |-> VersionOrOne(liveVersion), target |-> 0])
    ELSE RejectOp("delete")

\* upsert(entity, keys): before = row found by the keys; INSERT ... ON CONFLICT
\* DO UPDATE; writeHistory({...result, version}, before ? "update" : "insert")
Upsert ==
  \E d \in Data :
    StartOp([name |-> "upsert",
             tag |-> IF live.present THEN "update" ELSE "insert",
             data |-> d,
             hver |-> IF live.present THEN NextVersion(liveVersion) ELSE 1,
             target |-> 0])

\* rollback(id, version): entity = the history row of that version; UPDATE the
\* live row from it; writeHistory({...entity, version: version + 1}, "update")
Rollback ==
  \E v \in 1..MaxVersion :
    IF RowsOfVersion(history, v) # {}
      THEN \E i \in RowsOfVersion(history, v) :
             StartOp([name |-> "rollback", tag |-> "update",
                      data |-> history[i].data, hver |-> v + 1, target |-> v])
      ELSE RejectOp("rollback")

\* the live-table statement of the running operation
LiveAfter(op, row) ==
  CASE op.name \in {"create", "update", "upsert"} -> LiveRow(op.data)
    [] op.name = "delete" -> NoRow
    [] op.name = "rollback" -> IF row.present THEN LiveRow(op.data) ELSE row

\* The live-table statement succeeds.  On SQLite it runs after the wrapper's
\* commit, in autocommit mode.
LiveWrite ==
  /\ rpc = "write"
  /\ txLive' = LiveAfter(rop, txLive)
  /\ live' = IF dialect = "sqlite" THEN LiveAfter(rop, txLive) ELSE live
  /\ rpc' = "history"
  /\ UNCHANGED <<liveVersion, history, txHistory, rop, clock, repoFails,
                 opsLog, preLive, preHistory, nonRepoVars>>

\* writeHistory: the INSERT into <table>_history succeeds; new Date() is read
\* for valid_from.  The callback returns and, on a networked client, COMMIT
\* follows.
writeHistory ==
  /\ rpc = "history"
  /\ \E time \in clock..MaxClock :
       /\ clock' = time
       /\ txHistory' = Append(txHistory, HistoryRow(rop.tag, rop.hver, rop.data, time))
       /\ history' = IF dialect = "sqlite"
                       THEN Append(txHistory, HistoryRow(rop.tag, rop.hver, rop.data, time))
                       ELSE history
  /\ rpc' = "commit"
  /\ UNCHANGED <<liveVersion, live, txLive, rop, repoFails, opsLog, preLive,
                 preHistory, nonRepoVars>>

\* COMMIT on the networked connection; the operation resolves.
CommitOp ==
  /\ rpc = "commit"
  /\ live' = txLive
  /\ history' = txHistory
  /\ rpc' = "idle"
  /\ opsLog' = Append(opsLog, [name |-> rop.name, ok |-> TRUE, target |-> rop.target])
  /\ UNCHANGED <<liveVersion, txLive, txHistory, rop, clock, repoFails,
                 preLive, preHistory, nonRepoVars>>

\* A statement of the callback fails after its retries: the callback throws.
\* Networked: ROLLBACK discards the transaction's writes.  SQLite: the
\* statements already executed were autocommitted, nothing is undone.
StatementFails ==
  /\ rpc \in {"write", "history"}
  /\ repoFails > 0
  /\ repoFails' = repoFails - 1
  /\ txLive' = live
  /\ txHistory' = history
  /\ rpc' = "idle"
  /\ opsLog' = Append(opsLog, [name |-> rop.name, ok |-> FALSE, target |-> rop.target])
  /\ UNCHANGED <<liveVersion, live, history, rop, clock, preLive, preHistory,
                 nonRepoVars>>

\* ------------------------------------------------- placeholder rewriting
\* A statement text is a sequence of characters: "?" or any other character
\* ("c").  A rewritten text holds, for a placeholder, the number written
\* after the "$".
Chars == {"?", "c"}
Chr(ch) == [k |-> "chr", ch |-> ch, n |-> 0]
Dollar(n) == [k |-> "dollar", ch |-> "$", n |-> n]
Texts == UNION {[1..n -> Chars] : n \in 0..MaxLen}
Literal(q) == [i \in 1..Len(q) |-> Chr(q[i])]
\* number of "?" among the first i characters
Marks(q, i) == Cardinality({j \in 1..i : q[j] = "?"})
NoStatement == [text |-> <<>>, params |-> <<>>, ran |-> FALSE]

\* client.ts: query.replace(/\?/g, (_, i) => `$${i + 1}`) : the second argument
\* of the replacer is the offset of the match in the text (0-based), which is
\* position - 1 of the 1-based sequence
pgQuery(q) ==
  [i \in 1..Len(q) |-> IF q[i] = "?" THEN Dollar((i - 1) + 1) ELSE Chr(q[i])]

\* migrations.ts: let paramIndex = 1;
\* query.replace(/\?/g, () => `$${paramIndex++}`) for Postgres, else the text
formatQuery(q, dbType) ==
  IF dbType = "postgres"
    THEN [i \in 1..Len(q) |-> IF q[i] = "?" THEN Dollar(Marks(q, i)) ELSE Chr(q[i])]
    ELSE Literal(q)

\* query(query, params): the SQLite and MySQL branches pass the text as it is,
\* the Postgres branch passes pgQuery; params are passed as they are.
RunQuery ==
  /\ ~sent.ran
  /\ sent' = [text |-> IF dialect = "postgres" THEN pgQuery(sql) ELSE Literal(sql),
              params |-> params, ran |-> TRUE]
  /\ UNCHANGED <<sql, params, formatted, nonRewriteVars>>

\* formatQuery(query, dbType)
FormatQuery ==
  /\ formatted = <<>>
  /\ sql # <<>>
  /\ formatted' = formatQuery(sql, dialect)
  /\ UNCHANGED <<sql, params, sent, nonRewriteVars>>

RewriteIdle(texts) ==
  /\ sql \in texts
  /\ params = [i \in 1..Marks(sql, Len(sql)) |-> i]
  /\ sent = NoStatement
  /\ formatted = <<>>

\* ---------------------------------------------------------- client lifecycle
\* query() and close() of client.ts called by two callers on one DBClient
\* created by the constructor (not a transaction-scoped one).
LifeTexts == {"q1", "q2"}
NoCall == [call |-> "none", text |-> "", attempt |-> 0, late |-> FALSE,
           again |-> FALSE, runs |-> 0]
NoResult == [call |-> "none", code |-> "none", late |-> FALSE, runs |-> 0]
\* initializeClient: a bun:sqlite Database, or a mysql2 / pg pool
HandleFor(dbType) == IF dbType = "sqlite" THEN "db" ELSE "pool"

Settle(t, c, code) ==
  /\ lpc' = [lpc EXCEPT ![t] = "idle"]
  /\ lcall' = [lcall EXCEPT ![t] = NoCall]
  /\ lres' = [lres EXCEPT ![t] =
                [call |-> c.call, code |-> code, late |-> c.late, runs |-> c.runs]]

\* catch (error): throw QUERY_ERROR after the last attempt, else back off
\* (await) and go round the loop again
Caught(t, c) ==
  IF c.attempt = retryAttempts
    THEN Settle(t, c, "QUERY_ERROR")
    ELSE /\ lpc' = [lpc EXCEPT ![t] = "attempt"]
         /\ lcall' = [lcall EXCEPT ![t] = [c EXCEPT !.attempt = @ + 1]]
         /\ UNCHANGED lres

\* One pass of the loop body of query(), from the loop head to a return, a
\* throw or the backoff await.
\*   this.client instanceof Database : prepare/cache the statement, stmt.all
\*   isMySQLPool(this.client) ...     : client.getConnection read on null throws
\*   pool.query                       : rejected by a pool that has been ended
Attempt(t, c) ==
  CASE client = "db" ->
         \/ /\ preparedStatements' = preparedStatements \cup {c.text}
            /\ Settle(t, [c EXCEPT !.runs = @ + 1], "ok")
            /\ UNCHANGED lifeFails
         \/ \* stmt.all throws
            /\ lifeFails > 0
            /\ lifeFails' = lifeFails - 1
            /\ preparedStatements' = preparedStatements \cup {c.text}
            /\ Caught(t, [c EXCEPT !.runs = @ + 1])
         \/ \* this.client.prepare throws: nothing is cached
            /\ lifeFails > 0
            /\ c.text \notin preparedStatements
            /\ lifeFails' = lifeFails - 1
            /\ UNCHANGED preparedStatements
            /\ Caught(t, c)
    [] client = "pool" /\ handleOpen ->
         /\ UNCHANGED preparedStatements
         /\ \/ /\ Settle(t, [c EXCEPT !.runs = @ + 1], "ok")
               /\ UNCHANGED lifeFails
            \/ /\ lifeFails > 0
               /\ lifeFails' = lifeFails - 1
               /\ Caught(t, [c EXCEPT !.runs = @ + 1])
    [] client = "pool" /\ ~handleOpen ->
         /\ Caught(t, c)
         /\ UNCHANGED <<preparedStatements, lifeFails>>
    [] client = "null" ->
         /\ Caught(t, c)
         /\ UNCHANGED <<preparedStatements, lifeFails>>

\* query(text) is called: the first pass of the loop runs at once
QueryCall(t) ==
  /\ lpc[t] = "idle"
  /\ calls < MaxCalls
  /\ calls' = calls + 1
  /\ \E q \in LifeTexts :
       Attempt(t, [call |-> "query", text |-> q, attempt |-> 1,
                   late |-> closed > 0, again |-> FALSE, runs |-> 0])
  /\ UNCHANGED <<client, handleOpen, endCalls, closed, lateEnds, nonLifeVars>>

\* the backoff timer fired: next pass of the loop
QueryRetry(t) ==
  /\ lpc[t] = "attempt"
  /\ Attempt(t, lcall[t])
  /\ UNCHANGED <<client, handleOpen, endCalls, calls, closed, lateEnds,
                 nonLifeVars>>

\* close() is called.  Database: this.client.close() and this.client = null
\* at once.  Pool: end() is called and awaited; this.client is still the pool
\* while another close() awaits its end(), and then end() is called on a pool
\* that has been ended already.  Otherwise this.client = null.
CloseCall(t) ==
  /\ lpc[t] = "idle"
  /\ calls < MaxCalls
  /\ calls' = calls + 1
  /\ LET c == [call |-> "close", text |-> "", attempt |-> 0,
               late |-> closed > 0, again |-> ~handleOpen, runs |-> 0]
         late == IF closed > 0 THEN 1 ELSE 0
     IN CASE client = "db" ->
               /\ handleOpen' = FALSE
               /\ endCalls' = endCalls + 1
               /\ lateEnds' = lateEnds + late
               /\ client' = "null"
               /\ closed' = closed + 1
               /\ Settle(t, c, "ok")
          [] client = "pool" ->
               /\ handleOpen' = FALSE
               /\ endCalls' = endCalls + 1
               /\ lateEnds' = lateEnds + late
               /\ lpc' = [lpc EXCEPT ![t] = "ending"]
               /\ lcall' = [lcall EXCEPT ![t] = c]
               /\ UNCHANGED <<client, closed, lres>>
          [] client = "null" ->
               /\ client' = "null"
               /\ closed' = closed + 1
               /\ Settle(t, c, "ok")
               /\ UNCHANGED <<handleOpen, endCalls, lateEnds>>
  /\ UNCHANGED <<preparedStatements, lifeFails, nonLifeVars>>

\* await end() has returned: this.client = null, close() resolves
CloseEnd(t) ==
  /\ lpc[t] = "ending"
  /\ client' = "null"
  /\ closed' = closed + 1
  /\ Settle(t, lcall[t], "ok")
  /\ UNCHANGED <<handleOpen, endCalls, preparedStatements, lifeFails, calls,
                 lateEnds, nonLifeVars>>

\* end() of a pool that had been ended before rejects (pg: "Called end on
\* pool more than once"); nothing in close() catches it, so close() rejects
\* before this.client = null.  Drivers that tolerate the call resolve instead
\* (CloseEnd).
CloseRejected(t) ==
  /\ lpc[t] = "ending"
  /\ lcall[t].again
  /\ Settle(t, lcall[t], "END_ERROR")
  /\ UNCHANGED <<client, handleOpen, endCalls, preparedStatements, lifeFails,
                 calls, closed, lateEnds, nonLifeVars>>

LifeIdle(fails) ==
  /\ client = HandleFor(dialect)
  /\ handleOpen = TRUE
  /\ endCalls = 0
  /\ preparedStatements = {}
  /\ lpc = [t \in Tasks |-> "idle"]
  /\ lcall = [t \in Tasks |-> NoCall]
  /\ lifeFails = fails
  /\ calls = 0
  /\ closed = 0
  /\ lateEnds = 0
  /\ lres = [t \in Tasks |-> NoResult]

\* -------------------------------------------------------- switchConnection
\* The DBClient of unnamed/part_009 (Bun SQL / bun:sqlite), the version that
\* has switchConnection.
DefaultRetryDelay == 1000
DefaultMaxJitter == 100
\* a DBConfig field that is not given (undefined)
Omitted == -1
ParamValues == {Omitted, 0, 5}
Configs ==
  [type : Dialects, mentionsSqlite : BOOLEAN, retryAttempts : ParamValues,
   retryDelay : ParamValues, maxJitter : ParamValues]
Handles == 1..(MaxSwitch + 1)
SwTexts == {"q1", "q2"}

\* config.type === DBType.SQLite || config.connectionString.includes("sqlite")
isSQLiteConfig(config) == config.type = "sqlite" \/ config.mentionsSqlite

\* value || fallback : undefined and 0 are both falsy
OrDefault(value, fallback) ==
  IF value = Omitted \/ value = 0 THEN fallback ELSE value

RetryOf(config) ==
  [retryAttempts |-> OrDefault(config.retryAttempts, DefaultRetryAttempts),
   retryDelay |-> OrDefault(config.retryDelay, DefaultRetryDelay),
   maxJitter |-> OrDefault(config.maxJitter, DefaultMaxJitter)]

\* first handle id not yet used
NewHandle ==
  CHOOSE h \in Handles :
    swKind[h] = "none" /\ \A g \in 1..(h - 1) : swKind[g] # "none"

\* query(text) on an open handle.  Database: the statement is prepared on
\* this.client and cached under its text unless one is cached already.
SwQuery ==
  /\ swClient # 0
  /\ swOpen[swClient]
  /\ swRuns < MaxSwRuns
  /\ swRuns' = swRuns + 1
  /\ \E q \in SwTexts :
       swCache' = IF swKind[swClient] = "db" /\ ~\E e \in swCache : e.text = q
                    THEN swCache \cup {[text |-> q, handle |-> swClient]}
                    ELSE swCache
  /\ UNCHANGED <<swClient, swKind, swOpen, swConfig, swRetry, swPc, swArg,
                 swPrev, swDone, swLast, nonSwitchVars>>

\* switchConnection(config) is called and runs close() up to its first await:
\* the cache is cleared; a Database is closed and this.client = null at once;
\* another handle has close() called and awaited.
SwitchConnection ==
  /\ swPc = "idle"
  /\ swDone < MaxSwitch
  /\ \E config \in Configs : swArg' = config
  /\ swPrev' = swClient
  /\ swCache' = {}
  /\ IF swClient = 0
       THEN /\ swPc' = "closed"
            /\ UNCHANGED <<swClient, swOpen>>
       ELSE /\ swOpen' = [swOpen EXCEPT ![swClient] = FALSE]
            /\ IF swKind[swClient] = "db"
                 THEN swClient' = 0 /\ swPc' = "closed"
                 ELSE swClient' = swClient /\ swPc' = "closing"
  /\ UNCHANGED <<swKind, swConfig, swRetry, swDone, swLast, swRuns,
                 nonSwitchVars>>

\* await this.client.close() has returned: this.client = null
SwCloseEnd ==
  /\ swPc = "closing"
  /\ swClient' = 0
  /\ swPc' = "closed"
  /\ UNCHANGED <<swKind, swOpen, swCache, swConfig, swRetry, swArg, swPrev,
                 swDone, swLast, swRuns, nonSwitchVars>>

\* initializeClient(config) inside switchConnection: new Database(...) for a
\* config that isSQLiteConfig accepts, which may throw (INIT_ERROR); else
\* new SQL(connectionString).
initializeClient(config) ==
  \/ /\ swClient' = NewHandle
     /\ swKind' = [swKind EXCEPT ![NewHandle] =
                     IF isSQLiteConfig(config) THEN "db" ELSE "sql"]
     /\ swOpen' = [swOpen EXCEPT ![NewHandle] = TRUE]
     /\ swLast' = "ok"
  \/ /\ isSQLiteConfig(config)
     /\ swLast' = "INIT_ERROR"
     /\ UNCHANGED <<swClient, swKind, swOpen>>

\* the rest of switchConnection after await this.close()
SwReinit ==
  /\ swPc = "closed"
  /\ swConfig' = swArg
  /\ swCache' = {}
  /\ swRetry' = RetryOf(swArg)
  /\ initializeClient(swArg)
  /\ swPc' = "idle"
  /\ swDone' = swDone + 1
  /\ UNCHANGED <<swArg, swPrev, swRuns, nonSwitchVars>>

\* a client constructed from one of the given configs
SwitchIdle(configs) ==
  /\ swConfig \in configs
  /\ swRetry = RetryOf(swConfig)
  /\ swClient = 1
  /\ swKind = [h \in Handles |->
                 IF h = 1 THEN (IF isSQLiteConfig(swConfig) THEN "db" ELSE "sql")
                          ELSE "none"]
  /\ swOpen = [h \in Handles |-> h = 1]
  /\ swCache = {}
  /\ swPc = "idle"
  /\ swArg = swConfig
  /\ swPrev = 0
  /\ swDone = 0
  /\ swLast = "none"
  /\ swRuns = 0

PlainConfig ==
  [type |-> "sqlite", mentionsSqlite |-> TRUE, retryAttempts |-> Omitted,
   retryDelay |-> Omitted, maxJitter |-> Omitted]

\* ------------------------------------------------------------------ savepoint
\* savepoint(name, callback) of the Bun-SQL DBClient (unnamed/part_009).  Each
\* this.query(...) it awaits is one step that resolves or rejects with
\* QUERY_ERROR (the retry loop inside query() is the subject of SpecQuery).
SpNames == {"sp1", "sp2"}
SpValues == {"v1", "v2"}
SpErrors == {"e1", "e2"}
NoCallback == [status |-> "none", value |-> "none"]
NoOutcome == [status |-> "none", value |-> "none"]
Issued(text, name, ok) == [text |-> text, name |-> name, ok |-> ok]

\* the call settles: what it returned or threw, with what happened before
SpSettle(status, value, cb, issued) ==
  /\ spPc' = "idle"
  /\ spOut' = [status |-> status, value |-> value, name |-> spName,
               callback |-> cb, issued |-> issued]

\* savepoint(name, callback) is called: await this.query(`SAVEPOINT ${name}`)
\* stands before the try, so its error leaves savepoint() as it is.
Savepoint ==
  /\ spPc = "idle"
  /\ spCalls < MaxSaves
  /\ spCalls' = spCalls + 1
  /\ spCb' = NoCallback
  /\ \E name \in SpNames :
       /\ spName' = name
       /\ \/ /\ spLog' = <<Issued("SAVEPOINT", name, TRUE)>>
             /\ spPc' = "callback"
             /\ UNCHANGED <<spOut, spFails>>
          \/ /\ spFails > 0
             /\ spFails' = spFails - 1
             /\ spLog' = <<Issued("SAVEPOINT", name, FALSE)>>
             /\ spPc' = "idle"
             /\ spOut' = [status |-> "rejected", value |-> "QUERY_ERROR",
                          name |-> name, callback |-> NoCallback,
                          issued |-> spLog']
  /\ UNCHANGED <<spErr, nonSaveVars>>

\* const result = await callback()
SpCallback ==
  /\ spPc = "callback"
  /\ \/ \E v \in SpValues :
          /\ spCb' = [status |-> "resolved", value |-> v]
          /\ spPc' = "release"
          /\ UNCHANGED spErr
     \/ \E e \in SpErrors :
          /\ spCb' = [status |-> "rejected", value |-> e]
          /\ spErr' = e
          /\ spPc' = "rollback"
  /\ UNCHANGED <<spName, spLog, spOut, spCalls, spFails, nonSaveVars>>

\* await this.query(`RELEASE SAVEPOINT ${name}`); return result.  The await
\* is inside the try: its error is caught like the callback's.
SpRelease ==
  /\ spPc = "release"
  /\ \/ /\ spLog' = Append(spLog, Issued("RELEASE SAVEPOINT", spName, TRUE))
        /\ SpSettle("resolved", spCb.value, spCb, spLog')
        /\ UNCHANGED <<spErr, spFails>>
     \/ /\ spFails > 0
        /\ spFails' = spFails - 1
        /\ spLog' = Append(spLog, Issued("RELEASE SAVEPOINT", spName, FALSE))
        /\ spErr' = "QUERY_ERROR"
        /\ spPc' = "rollback"
        /\ UNCHANGED spOut
  /\ UNCHANGED <<spName, spCb, spCalls, nonSaveVars>>

\* Variant of SpRollbackTo without the .catch(): a failed rollback statement
\* replaces the error that is thrown.
SpRollbackToUncaught ==
  /\ spPc = "rollback"
  /\ \/ /\ spLog' = Append(spLog, Issued("ROLLBACK TO SAVEPOINT", spName, TRUE))
        /\ SpSettle("rejected", spErr, spCb, spLog')
        /\ UNCHANGED spFails
     \/ /\ spFails > 0
        /\ spFails' = spFails - 1
        /\ spLog' = Append(spLog, Issued("ROLLBACK TO SAVEPOINT", spName, FALSE))
        /\ SpSettle("rejected", "QUERY_ERROR", spCb, spLog')
  /\ UNCHANGED <<spName, spCb, spErr, spCalls, nonSaveVars>>

\* catch (error): await this.query(`ROLLBACK TO SAVEPOINT ${name}`).catch(...)
\* and throw error
SpRollbackTo ==
  /\ spPc = "rollback"
  /\ \/ /\ spLog' = Append(spLog, Issued("ROLLBACK TO SAVEPOINT", spName, TRUE))
        /\ UNCHANGED spFails
     \/ /\ spFails > 0
        /\ spFails' = spFails - 1
        /\ spLog' = Append(spLog, Issued("ROLLBACK TO SAVEPOINT", spName, FALSE))
  /\ SpSettle("rejected", spErr, spCb, spLog')
  /\ UNCHANGED <<spName, spCb, spErr, spCalls, nonSaveVars>>

SaveIdle(fails) ==
  /\ spPc = "idle"
  /\ spName = "sp1"
  /\ spLog = <<>>
  /\ spCb = NoCallback
  /\ spErr = "none"
  /\ spOut = [status |-> "none", value |-> "none", name |-> "sp1",
              callback |-> NoCallback, issued |-> <<>>]
  /\ spCalls = 0
  /\ spFails = fails

\* ------------------------------------------------------------ retry backoff
\* One query() call on the client of client.ts, with what each attempt gave
\* and the delay handed to setTimeout after each failed attempt.
RowSets == {"empty", "rows1", "rows2"}
NoQueryOutcome == [status |-> "none", value |-> "none"]

RECURSIVE Pow2(_)
\* Math.pow(2, n)
Pow2(n) == IF n = 0 THEN 1 ELSE 2 * Pow2(n - 1)

\* Variant of BackoffDelay without the exponent.
ConstantDelay(n) == retryDelay

\* this.retryDelay * Math.pow(2, attempt - 1)
BackoffDelay(n) == retryDelay * Pow2(n - 1)

\* getJitter: Math.random() * this.maxJitter lies in [0, maxJitter); the least,
\* a middle and the greatest whole number of milliseconds stand for the range
getJitter == {0, maxJitter \div 2, maxJitter - 1}

\* query(text, params) is called: the loop is entered with attempt = 1
BoQuery ==
  /\ boPc = "idle"
  /\ boPc' = "try"
  /\ boAttempt' = 1
  /\ UNCHANGED <<retryDelay, maxJitter, boExecs, boWaits, boOut, nonBackoffVars>>

\* the attempt succeeds: return result
BoAttemptOk ==
  /\ boPc = "try"
  /\ \E rows \in RowSets :
       /\ boExecs' = Append(boExecs, [attempt |-> boAttempt, ok |-> TRUE,
                                      rows |-> rows])
       /\ boOut' = [status |-> "resolved", value |-> rows]
  /\ boPc' = "done"
  /\ UNCHANGED <<retryDelay, maxJitter, boAttempt, boWaits, nonBackoffVars>>

\* Variant of BoAttemptFail: exhaustion resolves with an empty list.
BoAttemptFailResolvesEmpty ==
  /\ boPc = "try"
  /\ boExecs' = Append(boExecs, [attempt |-> boAttempt, ok |-> FALSE,
                                 rows |-> "none"])
  /\ IF boAttempt = retryAttempts
       THEN /\ boOut' = [status |-> "resolved", value |-> "empty"]
            /\ boPc' = "done"
            /\ UNCHANGED boWaits
       ELSE /\ \E jitter \in getJitter :
                 boWaits' = Append(boWaits,
                                   [after |-> boAttempt,
                                    ms |-> BackoffDelay(boAttempt) + jitter])
            /\ boPc' = "wait"
            /\ UNCHANGED boOut
  /\ UNCHANGED <<retryDelay, maxJitter, boAttempt, nonBackoffVars>>

\* the attempt fails (catch): throw QUERY_ERROR when it was the last one,
\* else await setTimeout(retryDelay * 2^(attempt-1) + getJitter())
BoAttemptFail ==
  /\ boPc = "try"
  /\ boExecs' = Append(boExecs, [attempt |-> boAttempt, ok |-> FALSE,
                                 rows |-> "none"])
  /\ IF boAttempt = retryAttempts
       THEN /\ boOut' = [status |-> "rejected", value |-> "QUERY_ERROR"]
            /\ boPc' = "done"
            /\ UNCHANGED boWaits
       ELSE /\ \E jitter \in getJitter :
                 boWaits' = Append(boWaits,
                                   [after |-> boAttempt,
                                    ms |-> BackoffDelay(boAttempt) + jitter])
            /\ boPc' = "wait"
            /\ UNCHANGED boOut
  /\ UNCHANGED <<retryDelay, maxJitter, boAttempt, nonBackoffVars>>

\* the timer fires: attempt++ and the loop goes round
BoTimer ==
  /\ boPc = "wait"
  /\ boAttempt' = boAttempt + 1
  /\ boPc' = "try"
  /\ UNCHANGED <<retryDelay, maxJitter, boExecs, boWaits, boOut, nonBackoffVars>>

\* constructor: this.retryDelay = config.retryDelay || 1000,
\* this.maxJitter = config.maxJitter || 100
BackoffIdle(delays, jitters) ==
  /\ retryDelay \in {OrDefault(v, DefaultRetryDelay) : v \in delays}
  /\ maxJitter \in {OrDefault(v, DefaultMaxJitter) : v \in jitters}
  /\ boPc = "idle"
  /\ boAttempt = 0
  /\ boExecs = <<>>
  /\ boWaits = <<>>
  /\ boOut = NoQueryOutcome

\* ------------------------------------------- generateMigration (migrations.ts)
\* what Reflect.getMetadata returns for metadata that was never defined, and
\* the name field of a result that has none
NoMetadata == "undefined"

\* !tableName : undefined and the empty string are both falsy
Falsy(v) == v \in {NoMetadata, ""}

\* String.prototype.toLowerCase on the spellings of the type names
toLowerCase(s) ==
  CASE s = "STRING" -> "string"
    [] s = "TEXT" -> "text"
    [] s = "INTEGER" -> "integer"
    [] s = "BIGINT" -> "bigint"
    [] s = "FLOAT" -> "float"
    [] s = "DOUBLE" -> "double"
    [] s = "DECIMAL" -> "decimal"
    [] s = "BOOLEAN" -> "boolean"
    [] s = "DATE" -> "date"
    [] s = "DATETIME" -> "datetime"
    [] s = "JSON" -> "json"
    [] s = "UUID" -> "uuid"
    [] s = "BLOB" -> "blob"
    [] s = "Boolean" -> "boolean"
    [] s = "Geometry" -> "geometry"
    [] OTHER -> s

\* function mapDataTypeToSql(dt, dbType)
mapDataTypeToSql(dt, dbType) ==
  LET type == toLowerCase(dt) IN
  IF dbType = "postgres" THEN
    CASE type = "string" -> "TEXT"
      [] type = "text" -> "TEXT"
      [] type = "integer" -> "INTEGER"
      [] type = "bigint" -> "BIGINT"
      [] type = "float" -> "REAL"
      [] type = "double" -> "DOUBLE PRECISION"
      [] type = "decimal" -> "DECIMAL"
      [] type = "boolean" -> "BOOLEAN"
      [] type = "date" -> "DATE"
      [] type = "datetime" -> "TIMESTAMP"
      [] type = "json" -> "JSONB"
      [] type = "uuid" -> "UUID"
      [] type = "blob" -> "BYTEA"
      [] OTHER -> "TEXT"
  ELSE IF dbType = "mysql" THEN
    CASE type = "string" -> "VARCHAR(255)"
      [] type = "text" -> "TEXT"
      [] type = "integer" -> "INT"
      [] type = "bigint" -> "BIGINT"
      [] type = "float" -> "FLOAT"
      [] type = "double" -> "DOUBLE"
      [] type = "decimal" -> "DECIMAL(10,2)"
      [] type = "boolean" -> "TINYINT(1)"
      [] type = "date" -> "DATE"
      [] type = "datetime" -> "DATETIME"
      [] type = "json" -> "JSON"
      [] type = "uuid" -> "CHAR(36)"
      [] type = "blob" -> "BLOB"
      [] OTHER -> "TEXT"
  ELSE IF dbType = "sqlite" THEN
    CASE type = "string" -> "TEXT"
      [] type = "text" -> "TEXT"
      [] type = "integer" -> "INTEGER"
      [] type = "bigint" -> "INTEGER"
      [] type = "float" -> "REAL"
      [] type = "double" -> "REAL"
      [] type = "decimal" -> "NUMERIC"
      [] type = "boolean" -> "INTEGER"
      [] type = "date" -> "TEXT"
      [] type = "datetime" -> "TEXT"
      [] type = "json" -> "TEXT"
      [] type = "uuid" -> "TEXT"
      [] type = "blob" -> "BLOB"
      [] OTHER -> "TEXT"
  ELSE "TEXT"

\* function getAutoIncrementPK(dbType)
getAutoIncrementPK(dbType) ==
  CASE dbType = "postgres" -> "SERIAL PRIMARY KEY"
    [] dbType = "mysql" -> "INT AUTO_INCREMENT PRIMARY KEY"
    [] OTHER -> "INTEGER PRIMARY KEY AUTOINCREMENT"

\* Array.prototype.join
RECURSIVE join(_, _)
join(parts, sep) ==
  IF parts = <<>> THEN ""
  ELSE IF Len(parts) = 1 THEN parts[1]
  ELSE parts[1] \o sep \o join(Tail(parts), sep)

\* validators[key]?.includes(v)
includes(validators, key, v) ==
  key \in DOMAIN validators /\ v \in validators[key]

\* a variant that pushes UNIQUE before NOT NULL
defPartsUniqueFirst(key, col, validators, dbType) ==
  (IF col.name = "id" THEN <<"id", getAutoIncrementPK(dbType)>>
   ELSE <<col.name, mapDataTypeToSql(col.type, dbType)>>)
  \o (IF includes(validators, key, "unique") THEN <<"UNIQUE">> ELSE <<>>)
  \o (IF includes(validators, key, "required") THEN <<"NOT NULL">> ELSE <<>>)

\* the body of the loop over Object.entries(columns): defParts as pushed to
defParts(key, col, validators, dbType) ==
  (IF col.name = "id" THEN <<"id", getAutoIncrementPK(dbType)>>
   ELSE <<col.name, mapDataTypeToSql(col.type, dbType)>>)
  \o (IF includes(validators, key, "required") THEN <<"NOT NULL">> ELSE <<>>)
  \o (IF includes(validators, key, "unique") THEN <<"UNIQUE">> ELSE <<>>)

\* columnDefs after the loop.  model.columns lists the entries of the column
\* map in the order Object.entries gives them, the insertion order of its
\* property keys; each definition carries, next to its text, the column it was
\* made for.
columnDefs(model, dbType) ==
  [i \in 1..Len(model.columns) |->
    [of |-> model.columns[i].col.name,
     def |-> join(defParts(model.columns[i].key, model.columns[i].col,
                           model.validators, dbType), " ")]]

DefTexts(defs) == [i \in 1..Len(defs) |-> defs[i].def]

\* new StabilizeError(message, code)
StabilizeError(message, code) ==
  [type |-> "StabilizeError", code |-> code, message |-> message]
NoGenError == [type |-> "none", code |-> "none", message |-> ""]

NoMigration == [kind |-> "none", error |-> NoGenError, up |-> <<>>, down |-> <<>>,
             name |-> NoMetadata]
GenRejected(e) == [kind |-> "rejected", error |-> e, up |-> <<>>, down |-> <<>>,
                   name |-> NoMetadata]
\* return { up, down, name }
Migration(up, down, name) ==
  [kind |-> "resolved", error |-> NoGenError, up |-> up, down |-> down,
   name |-> name]

\* const up = [`CREATE TABLE IF NOT EXISTS ${tableName} (${columnDefs.join(", ")})`]
CreateTable(tableName, defs) ==
  "CREATE TABLE IF NOT EXISTS " \o tableName \o " ("
    \o join(DefTexts(defs), ", ") \o ")"
\* const down = [`DROP TABLE IF EXISTS ${tableName}`]
DropTable(tableName) == "DROP TABLE IF EXISTS " \o tableName

\* a variant that falls back to a table name of its own
generateMigrationDefaultsTable(model, name, dbType) ==
  LET tableName == IF Falsy(model.tableName) THEN "models" ELSE model.tableName
  IN Migration(<<CreateTable(tableName, columnDefs(model, dbType))>>,
               <<DropTable(tableName)>>, name)

\* export async function generateMigration(model, name, dbType)
generateMigration(model, name, dbType) ==
  IF Falsy(model.tableName)
  THEN GenRejected(StabilizeError("Model not decorated with @Model",
                                  "MIGRATION_ERROR"))
  ELSE Migration(<<CreateTable(model.tableName, columnDefs(model, dbType))>>,
                 <<DropTable(model.tableName)>>, name)

\* ---- the generateMigration at the head of migrations.ts
\* function getAutoIncrementPK(dbType), defaulting to Postgres
getAutoIncrementPKV1(dbType) ==
  CASE dbType = "postgres" -> "SERIAL PRIMARY KEY"
    [] dbType = "mysql" -> "INT AUTO_INCREMENT PRIMARY KEY"
    [] dbType = "sqlite" -> "INTEGER PRIMARY KEY AUTOINCREMENT"
    [] OTHER -> "SERIAL PRIMARY KEY"

\* function getTimestampType(dbType)
getTimestampType(dbType) ==
  CASE dbType = "postgres" -> "TIMESTAMP"
    [] dbType = "mysql" -> "DATETIME"
    [] dbType = "sqlite" -> "TEXT"
    [] OTHER -> "TIMESTAMP"

\* the callback of Object.entries(columns).map
defV1(key, col, validators, dbType) ==
  IF col.name = "id" THEN getAutoIncrementPKV1(dbType)
  ELSE IF col.name \in {"createdAt", "updatedAt"}
       THEN col.name \o " " \o getTimestampType(dbType)
  ELSE col.name \o " " \o col.type
       \o (IF includes(validators, key, "required") THEN " NOT NULL" ELSE "")
       \o (IF includes(validators, key, "unique") THEN " UNIQUE" ELSE "")

KeysOf(columns) == {columns[i].key : i \in 1..Len(columns)}

\* columns[softDeleteField], for a key the column map has
Lookup(columns, key) ==
  (CHOOSE e \in {columns[i] : i \in 1..Len(columns)} : e.key = key).col

\* columnDefs after the map and the push of the soft-delete column:
\*   if (softDeleteField && columns[softDeleteField]) columnDefs.push(...)
columnDefsV1(model, dbType) ==
  LET mapped == [i \in 1..Len(model.columns) |->
                  [of |-> model.columns[i].col.name,
                   def |-> defV1(model.columns[i].key, model.columns[i].col,
                                 model.validators, dbType)]]
      soft == Lookup(model.columns, model.softDeleteField)
  IN IF ~Falsy(model.softDeleteField)
        /\ model.softDeleteField \in KeysOf(model.columns)
     THEN Append(mapped, [of |-> soft.name, def |-> soft.name \o " " \o soft.type])
     ELSE mapped

\* export async function generateMigration(model, name, dbType = Postgres),
\* which returns { up, down }
generateMigrationV1(model, name, dbType) ==
  IF Falsy(model.tableName)
  THEN GenRejected(StabilizeError("Model not decorated with @Model",
                                  "MIGRATION_ERROR"))
  ELSE Migration(<<CreateTable(model.tableName, columnDefsV1(model, dbType))>>,
                 <<DropTable(model.tableName)>>, NoMetadata)

\* ---- the models the generator is called with
\* @Column entries: property key, column name and declared type
GenColumns ==
  { [key |-> "id", col |-> [name |-> "id", type |-> ty]] :
      ty \in {"integer", "string"} }
  \cup { [key |-> "username", col |-> [name |-> "user_name", type |-> ty]] :
           ty \in {"string", "TEXT"} }
  \cup { [key |-> "deletedAt", col |-> [name |-> "deleted_at", type |-> "datetime"]] }

\* column maps: no property key twice
ColumnMaps ==
  { cs \in UNION {[1..n -> GenColumns] : n \in 0..MaxCols} :
      \A i, j \in 1..Len(cs) : i # j => cs[i].key # cs[j].key }

\* @Model, @Column, @Required/@Unique, @SoftDelete and @Versioned metadata
GenModels ==
  { [tableName |-> tn, columns |-> cs, validators |-> vs,
     softDeleteField |-> sd, versioned |-> ve] :
      tn \in {NoMetadata, "", "users"},
      cs \in ColumnMaps,
      vs \in UNION {[KeysOf(c) -> SUBSET {"required", "unique"}] : c \in ColumnMaps},
      sd \in {NoMetadata, "deletedAt"},
      ve \in BOOLEAN }

WellFormed(m) == DOMAIN m.validators = KeysOf(m.columns)

\* a model with a table name and nothing else
PlainModel ==
  [tableName |-> "users", columns |-> <<>>, validators |-> <<>>,
   softDeleteField |-> NoMetadata, versioned |-> FALSE]

GenerateMigration ==
  /\ gOut = NoMigration
  /\ gOut' = generateMigration(gModel, gName, gDbType)
  /\ gColumnDefs' = IF Falsy(gModel.tableName) THEN <<>>
                    ELSE columnDefs(gModel, gDbType)
  /\ UNCHANGED <<gModel, gName, gDbType, gOutV1, gColumnDefsV1, nonGenVars>>

GenerateMigrationV1 ==
  /\ gOutV1 = NoMigration
  /\ gOutV1' = generateMigrationV1(gModel, gName, gDbType)
  /\ gColumnDefsV1' = IF Falsy(gModel.tableName) THEN <<>>
                      ELSE columnDefsV1(gModel, gDbType)
  /\ UNCHANGED <<gModel, gName, gDbType, gOut, gColumnDefs, nonGenVars>>

GenIdle(models, dbTypes) ==
  /\ gModel \in models
  /\ gName = "m1"
  /\ gDbType \in dbTypes
  /\ gOut = NoMigration
  /\ gColumnDefs = <<>>
  /\ gOutV1 = NoMigration
  /\ gColumnDefsV1 = <<>>

\* ---- the groups of the later sections, idle
\* a dt argument: a string, a number (an enum member is one) or undefined
StringDt(text) == [tag |-> "string", s |-> text, n |-> 0]
NumberDt(num) == [tag |-> "number", s |-> "", n |-> num]
UndefinedDt == [tag |-> "undefined", s |-> "", n |-> 0]
NoMapOut == [kind |-> "none", sql |-> "", error |-> "none"]

MapIdle(dts, dbTypes) ==
  /\ mDt \in dts
  /\ mDbType \in dbTypes
  /\ mOut = NoMapOut

\* a Repository call: its name, the version argument of rollback and the
\* data a write stores
NoVerCall == [name |-> "none", version |-> 0, data |-> 0]
NoVerOut == [status |-> "none", code |-> "none"]

VerIdle(flags, fails) ==
  /\ versioned \in flags
  /\ vLive = 0
  /\ vHist = {}
  /\ vTxLive = 0
  /\ vTxHist = {}
  /\ vPc = "idle"
  /\ vCall = NoVerCall
  /\ vErr = "none"
  /\ vLog = <<>>
  /\ vOut = NoVerOut
  /\ vPre = [live |-> 0, hist |-> {}]
  /\ vCalls = 0
  /\ vFails = fails

\* no statement sent
NoStatementSent == [sent |-> FALSE, keys |-> <<>>, params |-> <<>>]

StampIdle(configs, columnSets, entities) ==
  /\ tsConfig \in configs
  /\ tsColumns \in columnSets
  /\ tsEntity \in entities
  /\ tsCreate = NoStatementSent
  /\ tsUpdate = NoStatementSent

NotSorted == [status |-> "none", result |-> <<>>, error |-> "none"]

TopoIdle(graphs) ==
  /\ seedGraph \in graphs
  /\ orderedSeeds = NotSorted

\* the table of the model, the ids of its rows, the relations option of
\* findOne (NoRelations: the option is absent)
CacheTable == "users"
CacheIds == {1}
NoRelations == <<"undefined">>
RelationOptions == {NoRelations, <<"posts">>, <<"posts", "profile">>}

\* `findOne:${this.table}:${id}:${options.relations?.join(",")}`
findOneKey(id, relations) ==
  "findOne:" \o CacheTable \o ":" \o ToString(id) \o ":" \o
    (IF relations = NoRelations THEN "undefined" ELSE join(relations, ","))
\* [`find:${this.table}`, `findOne:${this.table}:${id}`]
changeKeys(id) ==
  {"find:" \o CacheTable, "findOne:" \o CacheTable \o ":" \o ToString(id)}
\* this.cache.set(`findOne:${this.table}:${id}`, [result], 60)
writeThroughKey(id) == "findOne:" \o CacheTable \o ":" \o ToString(id)

CacheKeys ==
  UNION {changeKeys(id) \cup {writeThroughKey(id)}
           \cup {findOneKey(id, rel) : rel \in RelationOptions} : id \in CacheIds}
EmptyCache == [k \in CacheKeys |-> NoRow]
NotFound == [called |-> FALSE, id |-> 0, value |-> NoRow, row |-> NoRow,
             hit |-> FALSE, after |-> 0]
NoChange == [op |-> "none", status |-> "none", value |-> NoRow, before |-> NoRow]

CacheIdle(rows, strategies) ==
  /\ cRow \in rows
  /\ cStrategy \in strategies
  /\ cStore = EmptyCache
  /\ cFound = NotFound
  /\ cOut = NoChange
  /\ cCalls = 0
  /\ cChanges = 0

NotConstructed == "none"

FrameIdle(configs) ==
  /\ fConfig \in configs
  /\ fSupplied = fConfig
  /\ fClient = NotConstructed
  /\ fLog = <<>>

\* the later groups in the state a program that does not use them leaves
\* them in, but for the groups named
TailIdleExcept(used) ==
  /\ IF "map" \in used THEN TRUE ELSE MapIdle({StringDt("text")}, {"sqlite"})
  /\ IF "ver" \in used THEN TRUE ELSE VerIdle({TRUE}, 0)
  /\ IF "topo" \in used THEN TRUE ELSE TopoIdle({<<>>})
  /\ IF "frame" \in used THEN TRUE
     ELSE FrameIdle({[type |-> "sqlite", connectionString |-> "app.db"]})
  /\ IF "cache" \in used THEN TRUE
     ELSE CacheIdle({[id \in CacheIds |-> NoRow]}, {"cache-aside"})
  /\ IF "stamp" \in used THEN TRUE
     ELSE StampIdle({[createdAt |-> NoMetadata, updatedAt |-> NoMetadata]},
                    {{"email"}}, {<<>>})

TailIdle == TailIdleExcept({})

\* the groups added after the client, in the state a program that does not
\* use them leaves them in
\* no run has closed its client
ObsIdle == closeCalls = [t \in Tasks |-> 0]

LateIdle ==
  /\ SaveIdle(0)
  /\ BackoffIdle({Omitted}, {Omitted})
  /\ ObsIdle
  /\ GenIdle({PlainModel}, {"sqlite"})
  /\ TailIdle

RepoIdle(versions, fails) ==
  /\ liveVersion \in versions
  /\ live = NoRow
  /\ history = <<>>
  /\ txLive = NoRow
  /\ txHistory = <<>>
  /\ rpc = "idle"
  /\ rop = NoOp
  /\ clock = 0
  /\ repoFails = fails
  /\ opsLog = <<>>
  /\ preLive = NoRow
  /\ preHistory = <<>>
\* the extension state of the specifications that do not use it
ExtIdle ==
  /\ RepoIdle({0}, 0)
  /\ RewriteIdle({<<>>})
  /\ LifeIdle(0)
  /\ SwitchIdle({PlainConfig})
  /\ LateIdle

\* ------------------------------------------------------------ specifications
MigNames == <<"m1", "m2", "m3", "m4">>
UpLists == {[j \in 1..n |-> j] : n \in 1..MaxUp}
\* migration lists: the m-th migration carries its own name or none
MigLists ==
  UNION {[1..n -> [name : {""} \cup {MigNames[i] : i \in 1..n}, up : UpLists]]
         : n \in 1..MaxMigs}
ValidList(l) ==
  \A i \in 1..Len(l) : l[i].name \in {"", MigNames[i]}

InitWith(kinds, retries, fails, errors, lists, ser) ==
  /\ dialect \in Dialects
  /\ retryAttempts \in retries
  /\ kind \in kinds
  /\ pc = [t \in Tasks |-> IF kind[t] = "tx" THEN "txstart" ELSE "idle"]
  /\ conn = [t \in Tasks |-> "none"]
  /\ attempt = [t \in Tasks |-> 1]
  /\ steps = [t \in Tasks |-> 0]
  /\ depth = [t \in Tasks |-> 0]
  /\ caught = [t \in Tasks |-> NoError]
  /\ outcome = [t \in Tasks |-> Unsettled]
  /\ checkedOut = {}
  /\ inTx = [c \in Conns |-> FALSE]
  /\ pending = [c \in Conns |-> {}]
  /\ committed = {}
  /\ failsLeft = fails
  /\ driverErrors = errors
  /\ migs \in lists
  /\ mi = [t \in Tasks |-> 0]
  /\ curName = [t \in Tasks |-> NoName]
  /\ now = 0
  /\ serial = ser
  /\ log = [t \in Tasks |-> <<>>]
  /\ writes = [t \in Tasks |-> {}]
  /\ cbThrew = [t \in Tasks |-> "no"]
  /\ stmtConns = [t \in Tasks |-> {}]
  /\ onConn = [c \in Conns |-> {}]
  /\ acquired = [t \in Tasks |-> 0]
  /\ releases = [t \in Tasks |-> 0]
  /\ cbCalls = [t \in Tasks |-> 0]
  /\ nested = [t \in Tasks |-> 0]
  /\ execCount = [t \in Tasks |-> 0]
  /\ lastCause = [t \in Tasks |-> "none"]
  /\ upExec = [t \in Tasks |-> 0]
  /\ rowsAdded = [t \in Tasks |-> 0]
  /\ skipped = [t \in Tasks |-> {}]
  /\ upFailed = [t \in Tasks |-> 0]
  /\ priorRuns = [t \in Tasks |-> {}]

\* One client; t1 runs a transaction on it while t2 runs another transaction
\* or a pool-level query.
Init ==
  /\ InitWith({k \in [Tasks -> {"tx", "query"}] : k["t1"] = "tx"},
           {RetryAttemptsOf(n) : n \in 1..MaxRetry}, MaxFail, {"e1"}, {<<>>}, FALSE)
  /\ ExtIdle

Next ==
  \E t \in Tasks :
    \/ Query(t)
    \/ StmtOk(t)
    \/ StmtFail(t)
    \/ PgTxStmt(t)
    \/ Checkout(t)
    \/ SqliteTransaction(t)
    \/ CbQuery(t)
    \/ CbThrow(t)
    \/ CbReturn(t)
    \/ NestedTransaction(t)
    \/ NestedReturn(t)
    \/ Release(t)

Spec == Init /\ [][Next]_vars

\* One client, configured or not with retryAttempts; both tasks call query().
InitQuery ==
  /\ InitWith({[t \in Tasks |-> "query"]},
           {RetryAttemptsOf(n) : n \in 0..MaxRetry}, MaxQueryFail, {"e1", "e2"},
           {<<>>}, FALSE)
  /\ ExtIdle

NextQuery ==
  \E t \in Tasks :
    \/ Query(t)
    \/ StmtOk(t)
    \/ StmtFail(t)

SpecQuery == InitQuery /\ [][NextQuery]_vars

\* runMigrations called twice, the second call after the first has settled,
\* with the same configuration and migration list.
InitMig ==
  /\ InitWith({[t \in Tasks |-> "migrate"]},
           {RetryAttemptsOf(n) : n \in 1..MaxRetry}, MaxFail, {"e1"},
           {l \in MigLists : ValidList(l)}, TRUE)
  /\ ExtIdle

NextMig ==
  \E t \in Tasks :
       \/ RunMigrations(t)
       \/ MigQueryOk(t)
       \/ MigQueryFail(t)
       \/ MigrationSettled(t)
       \/ Close(t)
       \/ StmtOk(t)
       \/ StmtFail(t)
       \/ PgTxStmt(t)
       \/ Checkout(t)
       \/ SqliteTransaction(t)
       \/ CbQuery(t)
       \/ CbReturn(t)
       \/ Release(t)

SpecMig == InitMig /\ [][NextMig]_vars

\* Two runs of runMigrations, each with a client of its own, started
\* together against one database with the same list: one named migration.
RaceLists == {l \in MigLists : Len(l) = 1 /\ l[1].name = MigNames[1]}

InitRace ==
  /\ InitWith({[t \in Tasks |-> "migrate"]},
           {RetryAttemptsOf(n) : n \in 1..MaxRetry}, MaxFail, {"e1"},
           RaceLists, FALSE)
  /\ ExtIdle

NextRace ==
  \E t \in Tasks :
       \/ RunMigrations(t)
       \/ MigQueryOk(t)
       \/ MigQueryFail(t)
       \/ MigrationSettled(t)
       \/ Close(t)
       \/ StmtOk(t)
       \/ StmtFail(t)
       \/ UniqueViolation(t)
       \/ PgTxStmt(t)
       \/ Checkout(t)
       \/ SqliteTransaction(t)
       \/ CbQuery(t)
       \/ CbReturn(t)
       \/ Release(t)

SpecRace == InitRace /\ [][NextRace]_vars

\* One repository of a versioned model on an idle client; its operations are
\* called one after the other.
InitRepo ==
  /\ InitWith({[t \in Tasks |-> "query"]}, {DefaultRetryAttempts}, 0, {"e1"},
              {<<>>}, FALSE)
  /\ RepoIdle(0..MaxLiveVersion, MaxRepoFail)
  /\ RewriteIdle({<<>>})
  /\ LifeIdle(0)
  /\ SwitchIdle({PlainConfig})
  /\ LateIdle

NextRepo ==
  \/ Create
  \/ Update
  \/ Delete
  \/ Upsert
  \/ Rollback
  \/ LiveWrite
  \/ writeHistory
  \/ CommitOp
  \/ StatementFails

SpecRepo == InitRepo /\ [][NextRepo]_vars

\* A statement text with its parameters is given to query() and to
\* formatQuery(), for every dialect.
InitRewrite ==
  /\ InitWith({[t \in Tasks |-> "query"]}, {DefaultRetryAttempts}, 0, {"e1"},
              {<<>>}, FALSE)
  /\ RepoIdle({0}, 0)
  /\ RewriteIdle(Texts)
  /\ LifeIdle(0)
  /\ SwitchIdle({PlainConfig})
  /\ LateIdle

NextRewrite ==
  \/ RunQuery
  \/ FormatQuery

SpecRewrite == InitRewrite /\ [][NextRewrite]_vars

\* One client of any dialect; two callers call query() and close() on it in
\* any order and interleaving.
InitLife ==
  /\ InitWith({[t \in Tasks |-> "query"]}, {RetryAttemptsOf(n) : n \in 1..MaxRetry},
              0, {"e1"}, {<<>>}, FALSE)
  /\ RepoIdle({0}, 0)
  /\ RewriteIdle({<<>>})
  /\ LifeIdle(MaxLifeFail)
  /\ SwitchIdle({PlainConfig})
  /\ LateIdle

NextLife ==
  \E t \in Tasks :
    \/ QueryCall(t)
    \/ QueryRetry(t)
    \/ CloseCall(t)
    \/ CloseEnd(t)
    \/ CloseRejected(t)

SpecLife == InitLife /\ [][NextLife]_vars

\* A client of the Bun-SQL version, built from one of three configs, that is
\* queried and switched to any config.
InitSwitch ==
  /\ InitWith({[t \in Tasks |-> "query"]}, {DefaultRetryAttempts}, 0, {"e1"},
              {<<>>}, FALSE)
  /\ RepoIdle({0}, 0)
  /\ RewriteIdle({<<>>})
  /\ LifeIdle(0)
  /\ SwitchIdle({c \in Configs :
                   /\ c.mentionsSqlite = (c.type = "sqlite")
                   /\ c.retryAttempts = Omitted
                   /\ c.retryDelay = Omitted
                   /\ c.maxJitter = Omitted})
  /\ LateIdle

NextSwitch ==
  \/ SwQuery
  \/ SwitchConnection
  \/ SwCloseEnd
  \/ SwReinit

SpecSwitch == InitSwitch /\ [][NextSwitch]_vars

\* savepoint() called one call after the other on a client inside a
\* transaction.
InitSave ==
  /\ InitWith({[t \in Tasks |-> "query"]}, {DefaultRetryAttempts}, 0, {"e1"},
              {<<>>}, FALSE)
  /\ RepoIdle({0}, 0)
  /\ RewriteIdle({<<>>})
  /\ LifeIdle(0)
  /\ SwitchIdle({PlainConfig})
  /\ SaveIdle(MaxSaveFail)
  /\ BackoffIdle({Omitted}, {Omitted})
  /\ ObsIdle
  /\ GenIdle({PlainModel}, {"sqlite"})
  /\ TailIdle

NextSave ==
  \/ Savepoint
  \/ SpCallback
  \/ SpRelease
  \/ SpRollbackTo

SpecSave == InitSave /\ [][NextSave]_vars

\* One query() call under every configuration of the retry parameters.
InitBackoff ==
  /\ InitWith({[t \in Tasks |-> "query"]},
              {RetryAttemptsOf(n) : n \in 0..MaxBoRetry}, 0, {"e1"}, {<<>>}, FALSE)
  /\ RepoIdle({0}, 0)
  /\ RewriteIdle({<<>>})
  /\ LifeIdle(0)
  /\ SwitchIdle({PlainConfig})
  /\ SaveIdle(0)
  /\ BackoffIdle({Omitted} \cup (0..MaxDelay), {Omitted} \cup (0..MaxJitter))
  /\ ObsIdle
  /\ GenIdle({PlainModel}, {"sqlite"})
  /\ TailIdle

NextBackoff ==
  \/ BoQuery
  \/ BoAttemptOk
  \/ BoAttemptFail
  \/ BoTimer

SpecBackoff == InitBackoff /\ [][NextBackoff]_vars

\* generateMigration called once for every model and dialect.
InitGen ==
  /\ InitWith({[t \in Tasks |-> "query"]}, {DefaultRetryAttempts}, 0, {"e1"},
              {<<>>}, FALSE)
  /\ RepoIdle({0}, 0)
  /\ RewriteIdle({<<>>})
  /\ LifeIdle(0)
  /\ SwitchIdle({PlainConfig})
  /\ SaveIdle(0)
  /\ BackoffIdle({Omitted}, {Omitted})
  /\ ObsIdle
  /\ GenIdle({m \in GenModels : WellFormed(m)}, Dialects)
  /\ TailIdle

NextGen ==
  \/ GenerateMigration
  \/ GenerateMigrationV1

SpecGen == InitGen /\ [][NextGen]_vars

\* ------------------------------------- mapDataTypeToSql with any argument
\* enum DataTypes: the names of its members, member n at position n + 1
DataTypeNames ==
  <<"STRING", "TEXT", "INTEGER", "BIGINT", "FLOAT", "DOUBLE", "DECIMAL",
    "BOOLEAN", "DATE", "DATETIME", "JSON", "UUID", "BLOB">>

\* DataTypes[dt], the reverse mapping of the numeric enum
IsMember(num) == num \in 0..(Len(DataTypeNames) - 1)

\*   if (typeof dt === "string") type = dt.toLowerCase();
\*   else type = DataTypes[dt].toLowerCase();
\* DataTypes[dt] is undefined for anything that is not a member, and
\* undefined.toLowerCase() throws a TypeError
typeOf(dt) ==
  IF dt.tag = "string" THEN [threw |-> FALSE, type |-> toLowerCase(dt.s)]
  ELSE IF dt.tag = "number" /\ IsMember(dt.n)
  THEN [threw |-> FALSE, type |-> toLowerCase(DataTypeNames[dt.n + 1])]
  ELSE [threw |-> TRUE, type |-> ""]

\* mapDataTypeToSql(dt, dbType) for a dt of any runtime type
mapAny(dt, dbType) ==
  LET t == typeOf(dt) IN
  IF t.threw THEN [kind |-> "threw", sql |-> "", error |-> "TypeError"]
  ELSE [kind |-> "returned", sql |-> mapDataTypeToSql(t.type, dbType),
        error |-> "none"]

\* the arguments tried: every member, numbers on both sides of the enum,
\* member names in three spellings, other strings, and undefined
DtInputs ==
  {NumberDt(n) : n \in (0 - 1)..(Len(DataTypeNames) + MaxUnknown - 1)}
  \cup {StringDt(DataTypeNames[i]) : i \in 1..Len(DataTypeNames)}
  \cup {StringDt(toLowerCase(DataTypeNames[i])) : i \in 1..Len(DataTypeNames)}
  \cup {StringDt(t) : t \in {"Boolean", "Geometry", "geometry", "varchar", ""}}
  \cup {UndefinedDt}

MapDataType ==
  /\ mOut = NoMapOut
  /\ mOut' = mapAny(mDt, mDbType)
  /\ UNCHANGED <<mDt, mDbType, nonMapVars>>

\* mapDataTypeToSql called once for every argument and dialect.
InitMap ==
  /\ InitWith({[t \in Tasks |-> "query"]}, {DefaultRetryAttempts}, 0, {"e1"},
              {<<>>}, FALSE)
  /\ RepoIdle({0}, 0)
  /\ RewriteIdle({<<>>})
  /\ LifeIdle(0)
  /\ SwitchIdle({PlainConfig})
  /\ SaveIdle(0)
  /\ BackoffIdle({Omitted}, {Omitted})
  /\ ObsIdle
  /\ GenIdle({PlainModel}, {"sqlite"})
  /\ TailIdleExcept({"map"})
  /\ MapIdle(DtInputs, Dialects)

NextMap ==
  \/ MapDataType

SpecMap == InitMap /\ [][NextMap]_vars

\* ------------------------------ Repository calls and the history table
\* One entity id.  A call runs statement by statement; a statement is named
\* by its verb and the table it addresses.
WriteNames ==
  {"create", "update", "delete", "upsert", "bulkCreate", "bulkUpdate", "bulkDelete"}
VersioningNames == {"asOf", "history", "rollback"}
HistoryStatements == {"SELECT history", "INSERT history"}

\* new StabilizeError("Model is not versioned", "VERSIONING_ERROR") etc.
VerRejected(code) == [status |-> "rejected", code |-> code]
VerResolved == [status |-> "resolved", code |-> "none"]

\* the history rows of a version
VerRows(h, v) == {r \in h : r.version = v}

\* the call settles: the promise the caller holds resolves or rejects
VerSettle(out) ==
  /\ vOut' = out
  /\ vPc' = "idle"
  /\ vErr' = "none"

\* if (!this.versioned) throw new StabilizeError("Model is not versioned",
\*   "VERSIONING_ERROR")  -- the first line of asOf, history and rollback
NotVersionedGuard(name) == ~versioned /\ name \in VersioningNames

\* A call is made.  asOf, history and rollback first test this.versioned;
\* asOf and history then run one SELECT on the client, every other call
\* enters client.transaction.
VerCall ==
  /\ vPc = "idle"
  /\ vCalls < MaxVerCalls
  /\ vCalls' = vCalls + 1
  /\ \E name \in WriteNames \cup VersioningNames, v \in 1..MaxVerVersion,
        d \in 1..MaxVerData :
       /\ vCall' = [name |-> name, version |-> v, data |-> d]
       /\ IF NotVersionedGuard(name)
            THEN VerSettle(VerRejected("VERSIONING_ERROR"))
            ELSE /\ vPc' = IF name \in {"asOf", "history"} THEN "read" ELSE "begin"
                 /\ vOut' = NoVerOut
                 /\ vErr' = "none"
  /\ vLog' = <<>>
  /\ vPre' = [live |-> vLive, hist |-> vHist]
  /\ vTxLive' = vLive
  /\ vTxHist' = vHist
  /\ UNCHANGED <<versioned, vLive, vHist, vFails, nonVerVars>>

\* asOf / history: the SELECT on <table>_history
VerRead ==
  /\ vPc = "read"
  /\ vLog' = Append(vLog, "SELECT history")
  /\ \/ VerSettle(VerResolved) /\ UNCHANGED vFails
     \/ /\ vFails > 0
        /\ vFails' = vFails - 1
        /\ VerSettle(VerRejected("QUERY_ERROR"))
  /\ UNCHANGED <<versioned, vLive, vHist, vTxLive, vTxHist, vCall, vPre, vCalls,
                 nonVerVars>>

\* where the callback starts
FirstStep(name) == IF name = "rollback" THEN "select" ELSE "live"

\* client.transaction up to the call of the callback.  SQLite: the native
\* wrapper runs it at once.  MySQL: START TRANSACTION on the connection.
\* Postgres: BEGIN goes through the branch of query() that destructures the
\* result, so it is executed and then fails, whatever the server did.
VerBegin ==
  /\ vPc = "begin"
  /\ CASE dialect = "sqlite" ->
            /\ vPc' = FirstStep(vCall.name)
            /\ UNCHANGED <<vLog, vErr, vFails>>
       [] dialect = "postgres" ->
            /\ vLog' = Append(vLog, "BEGIN")
            /\ vErr' = "QUERY_ERROR"
            /\ vPc' = "catch"
            /\ UNCHANGED vFails
       [] dialect = "mysql" ->
            /\ vLog' = Append(vLog, "BEGIN")
            /\ \/ /\ vPc' = FirstStep(vCall.name)
                  /\ UNCHANGED <<vErr, vFails>>
               \/ /\ vFails > 0
                  /\ vFails' = vFails - 1
                  /\ vErr' = "QUERY_ERROR"
                  /\ vPc' = "catch"
  /\ UNCHANGED <<versioned, vLive, vHist, vTxLive, vTxHist, vCall, vOut, vPre,
                 vCalls, nonVerVars>>

\* rollback: SELECT * FROM <history> WHERE id = ? AND version = ? LIMIT 1;
\*   if (!rows.length) throw new StabilizeError("Version not found", "ROLLBACK_ERROR")
VerSelect ==
  /\ vPc = "select"
  /\ vLog' = Append(vLog, "SELECT history")
  /\ IF VerRows(vTxHist, vCall.version) = {}
       THEN vErr' = "ROLLBACK_ERROR" /\ vPc' = "catch"
       ELSE vPc' = "live" /\ UNCHANGED vErr
  /\ UNCHANGED <<versioned, vLive, vHist, vTxLive, vTxHist, vCall, vOut, vPre,
                 vCalls, vFails, nonVerVars>>

\* the row a call leaves in the live table
VerLiveAfter(call, row, h) ==
  CASE call.name \in {"delete", "bulkDelete"} -> 0
    [] call.name = "rollback" ->
         IF row = 0 \/ VerRows(h, call.version) = {} THEN row
         ELSE (CHOOSE r \in VerRows(h, call.version) : TRUE).data
    [] OTHER -> call.data

\* the statement on the live table (INSERT, UPDATE or DELETE).  On SQLite
\* the wrapper has committed by now and the statement is autocommitted.
VerLive ==
  /\ vPc = "live"
  /\ vLog' = Append(vLog, "WRITE live")
  /\ vTxLive' = VerLiveAfter(vCall, vTxLive, vTxHist)
  /\ vLive' = IF dialect = "sqlite" THEN VerLiveAfter(vCall, vTxLive, vTxHist)
              ELSE vLive
  /\ vPc' = "history"
  /\ UNCHANGED <<versioned, vHist, vTxHist, vCall, vErr, vOut, vPre, vCalls,
                 vFails, nonVerVars>>

\* a variant of writeHistory without its first line
VerWriteHistoryUnguarded ==
  /\ vPc = "history"
  /\ vLog' = Append(vLog, "INSERT history")
  /\ vTxHist' = vTxHist \cup {[version |-> vCall.version, data |-> vTxLive]}
  /\ vHist' = IF dialect = "sqlite"
              THEN vTxHist \cup {[version |-> vCall.version, data |-> vTxLive]}
              ELSE vHist
  /\ vPc' = "commit"
  /\ UNCHANGED <<versioned, vLive, vTxLive, vCall, vErr, vOut, vPre, vCalls,
                 vFails, nonVerVars>>

\* writeHistory(entity, operation, client), with the version argument of the
\* call standing for the version the caller computed:
\*   if (!this.versioned) return;
\*   ... INSERT INTO <table>_history (...) VALUES (...)
VerWriteHistory ==
  /\ vPc = "history"
  /\ IF versioned
       THEN /\ vLog' = Append(vLog, "INSERT history")
            /\ vTxHist' = vTxHist \cup {[version |-> vCall.version, data |-> vTxLive]}
            /\ vHist' = IF dialect = "sqlite"
                        THEN vTxHist \cup {[version |-> vCall.version, data |-> vTxLive]}
                        ELSE vHist
       ELSE UNCHANGED <<vLog, vTxHist, vHist>>
  /\ vPc' = "commit"
  /\ UNCHANGED <<versioned, vLive, vTxLive, vCall, vErr, vOut, vPre, vCalls,
                 vFails, nonVerVars>>

\* the callback has returned: COMMIT on MySQL, nothing left to do on SQLite
VerCommit ==
  /\ vPc = "commit"
  /\ IF dialect = "sqlite"
       THEN UNCHANGED <<vLog, vLive, vHist>>
       ELSE /\ vLog' = Append(vLog, "COMMIT")
            /\ vLive' = vTxLive
            /\ vHist' = vTxHist
  /\ VerSettle(VerResolved)
  /\ UNCHANGED <<versioned, vTxLive, vTxHist, vCall, vPre, vCalls, vFails,
                 nonVerVars>>

\* a statement of the callback, or COMMIT, fails after its retries
VerStmtFails ==
  /\ vPc \in {"select", "live", "commit"} \/ (vPc = "history" /\ versioned)
  /\ vPc = "commit" => dialect # "sqlite"
  /\ vFails > 0
  /\ vFails' = vFails - 1
  /\ vLog' = Append(vLog, CASE vPc = "select" -> "SELECT history"
                            [] vPc = "live" -> "WRITE live"
                            [] vPc = "history" -> "INSERT history"
                            [] vPc = "commit" -> "COMMIT")
  /\ vErr' = "QUERY_ERROR"
  /\ vPc' = "catch"
  /\ UNCHANGED <<versioned, vLive, vHist, vTxLive, vTxHist, vCall, vOut, vPre,
                 vCalls, nonVerVars>>

\* catch (error) { await txClient.query("ROLLBACK"); throw error; }
\* SQLite: the promise the wrapper returned rejects, nothing is rolled back.
\* MySQL: ROLLBACK, and when it fails its QUERY_ERROR is what is thrown.
\* Postgres: ROLLBACK fails as BEGIN did.
VerCatch ==
  /\ vPc = "catch"
  /\ CASE dialect = "sqlite" ->
            /\ VerSettle(VerRejected(vErr))
            /\ UNCHANGED <<vLog, vFails>>
       [] dialect = "postgres" ->
            /\ vLog' = Append(vLog, "ROLLBACK")
            /\ VerSettle(VerRejected("QUERY_ERROR"))
            /\ UNCHANGED vFails
       [] dialect = "mysql" ->
            /\ vLog' = Append(vLog, "ROLLBACK")
            /\ \/ VerSettle(VerRejected(vErr)) /\ UNCHANGED vFails
               \/ /\ vFails > 0
                  /\ vFails' = vFails - 1
                  /\ VerSettle(VerRejected("QUERY_ERROR"))
  /\ vTxLive' = vLive
  /\ vTxHist' = vHist
  /\ UNCHANGED <<versioned, vLive, vHist, vCall, vPre, vCalls, nonVerVars>>

\* Repository calls, one after the other, on versioned and other models.
InitVer ==
  /\ InitWith({[t \in Tasks |-> "query"]}, {DefaultRetryAttempts}, 0, {"e1"},
              {<<>>}, FALSE)
  /\ RepoIdle({0}, 0)
  /\ RewriteIdle({<<>>})
  /\ LifeIdle(0)
  /\ SwitchIdle({PlainConfig})
  /\ SaveIdle(0)
  /\ BackoffIdle({Omitted}, {Omitted})
  /\ ObsIdle
  /\ GenIdle({PlainModel}, {"sqlite"})
  /\ TailIdleExcept({"ver"})
  /\ VerIdle(BOOLEAN, MaxVerFail)

NextVer ==
  \/ VerCall
  \/ VerRead
  \/ VerBegin
  \/ VerSelect
  \/ VerLive
  \/ VerWriteHistory
  \/ VerCommit
  \/ VerStmtFails
  \/ VerCatch

SpecVer == InitVer /\ [][NextVer]_vars

\* ----------------------------------- timestamps in _create and _update
\* An entity is an object: its own keys in insertion order, each with its
\* value.  Values: "v" and "t0" are given by the caller, "null" is null,
\* Now is what new Date() returns, Undefined what reading a missing key gives.
Now == "now"
Undefined == "undefined"

ObjKeys(obj) == [i \in 1..Len(obj) |-> obj[i].key]
HasKey(obj, k) == \E i \in 1..Len(obj) : obj[i].key = k
\* obj[k]
Get(obj, k) ==
  IF HasKey(obj, k) THEN (CHOOSE e \in {obj[i] : i \in 1..Len(obj)} : e.key = k).value
  ELSE Undefined
\* obj[k] = v : an own key keeps its place, a new one goes last
Put(obj, k, v) ==
  IF HasKey(obj, k)
  THEN [i \in 1..Len(obj) |-> IF obj[i].key = k THEN [key |-> k, value |-> v] ELSE obj[i]]
  ELSE Append(obj, [key |-> k, value |-> v])
\* !value
Not(v) == v \in {Undefined, "null", NoMetadata}

\* if (timestamps.<field> && !entityWithTimestamps[timestamps.<field>])
\*   entityWithTimestamps[timestamps.<field>] = new Date();
Stamp(obj, field) ==
  IF ~Falsy(field) /\ Not(Get(obj, field)) THEN Put(obj, field, Now) ELSE obj

\* Object.keys(entityWithTimestamps).filter((k) => this.columns[k])
ColumnKeys(obj, columns) == SelectSeq(ObjKeys(obj), LAMBDA k : k \in columns)

\* _create: the keys and params of its INSERT
\*   const params = keys.map((k) => (entityWithTimestamps as any)[k]);
createStatement(entity, config, columns) ==
  LET entityWithTimestamps == Stamp(Stamp(entity, config.createdAt), config.updatedAt)
      keys == ColumnKeys(entityWithTimestamps, columns)
  IN [sent |-> TRUE, keys |-> keys,
      params |-> [i \in 1..Len(keys) |-> Get(entityWithTimestamps, keys[i])]]

\* _update: the keys and params of its UPDATE (the id, its last param, left out)
\*   const params = [...keys.map((k) => (entity as any)[k]), id];
updateStatement(entity, config, columns) ==
  LET entityWithTimestamps == Stamp(entity, config.updatedAt)
      keys == ColumnKeys(entityWithTimestamps, columns)
  IN [sent |-> TRUE, keys |-> keys,
      params |-> [i \in 1..Len(keys) |-> Get(entity, keys[i])]]

\* the entities, configurations and column sets tried
RECURSIVE ObjectsOver(_)
ObjectsOver(keys) ==
  IF keys = <<>> THEN {<<>>}
  ELSE LET rest == ObjectsOver(Tail(keys))
           vals == IF Head(keys) = "email" THEN {"v"} ELSE {"t0", "null"}
       IN rest \cup {<<[key |-> Head(keys), value |-> v]>> \o o :
                       v \in vals, o \in rest}
StampEntities == ObjectsOver(<<"email", "createdAt", "updatedAt">>)
StampConfigs ==
  [createdAt : {NoMetadata, "createdAt"}, updatedAt : {NoMetadata, "updatedAt"}]
StampColumnSets == {{"email"} \cup c : c \in SUBSET {"createdAt", "updatedAt"}}

CreateSends ==
  /\ tsCreate = NoStatementSent
  /\ tsCreate' = createStatement(tsEntity, tsConfig, tsColumns)
  /\ UNCHANGED <<tsConfig, tsColumns, tsEntity, tsUpdate, nonStampVars>>

UpdateSends ==
  /\ tsUpdate = NoStatementSent
  /\ tsUpdate' = updateStatement(tsEntity, tsConfig, tsColumns)
  /\ UNCHANGED <<tsConfig, tsColumns, tsEntity, tsCreate, nonStampVars>>

\* _create and _update called with every entity under every configuration.
InitStamp ==
  /\ InitWith({[t \in Tasks |-> "query"]}, {DefaultRetryAttempts}, 0, {"e1"},
              {<<>>}, FALSE)
  /\ RepoIdle({0}, 0)
  /\ RewriteIdle({<<>>})
  /\ LifeIdle(0)
  /\ SwitchIdle({PlainConfig})
  /\ SaveIdle(0)
  /\ BackoffIdle({Omitted}, {Omitted})
  /\ ObsIdle
  /\ GenIdle({PlainModel}, {"sqlite"})
  /\ TailIdleExcept({"stamp"})
  /\ StampIdle(StampConfigs, StampColumnSets, StampEntities)

NextStamp ==
  \/ CreateSends
  \/ UpdateSends

SpecStamp == InitStamp /\ [][NextStamp]_vars

\* ------------------------------------------------------- topologicalSort
\* graph.keys(), graph.has(node), graph.get(node)?.dependencies || []
GraphKeys(graph) == [i \in 1..Len(graph) |-> graph[i].name]
GraphHas(graph, node) == \E i \in 1..Len(graph) : graph[i].name = node
DependenciesOf(graph, node) ==
  IF GraphHas(graph, node)
  THEN (CHOOSE e \in {graph[i] : i \in 1..Len(graph)} : e.name = node).dependencies
  ELSE <<>>

\* result, visited and temp, and the Error thrown, if any
SortStart == [result |-> <<>>, visited |-> {}, temp |-> {}, error |-> "none"]

RECURSIVE visit(_, _, _)
RECURSIVE visitDependencies(_, _, _)

\* for (const dep of deps) {
\*   if (!graph.has(dep)) throw new Error(`Dependency ${dep} not found for ${node}`);
\*   visit(dep);
\* }
visitDependencies(graph, deps, st) ==
  IF deps = <<>> \/ st.error # "none" THEN st
  ELSE IF ~GraphHas(graph, Head(deps))
  THEN [st EXCEPT !.error = "Dependency not found"]
  ELSE visitDependencies(graph, Tail(deps), visit(graph, Head(deps), st))

\* a variant of visit that pushes the node before it visits its dependencies
visitPushesFirst(graph, node, st) ==
  IF st.error # "none" THEN st
  ELSE IF node \in st.temp
  THEN [st EXCEPT !.error = "Circular dependency detected"]
  ELSE IF node \in st.visited THEN st
  ELSE LET entered == [st EXCEPT !.temp = @ \cup {node},
                                 !.result = Append(@, node)]
           after == visitDependencies(graph, DependenciesOf(graph, node), entered)
       IN IF after.error # "none" THEN after
          ELSE [after EXCEPT !.temp = @ \ {node},
                             !.visited = @ \cup {node}]

\* function visit(node)
visit(graph, node, st) ==
  IF st.error # "none" THEN st
  ELSE IF node \in st.temp
  THEN [st EXCEPT !.error = "Circular dependency detected"]
  ELSE IF node \in st.visited THEN st
  ELSE LET entered == [st EXCEPT !.temp = @ \cup {node}]
           after == visitDependencies(graph, DependenciesOf(graph, node), entered)
       IN IF after.error # "none" THEN after
          ELSE [after EXCEPT !.temp = @ \ {node},
                             !.visited = @ \cup {node},
                             !.result = Append(@, node)]

\* for (const node of graph.keys()) { if (!visited.has(node)) visit(node); }
RECURSIVE visitAll(_, _, _)
visitAll(graph, nodes, st) ==
  IF nodes = <<>> \/ st.error # "none" THEN st
  ELSE visitAll(graph, Tail(nodes),
                IF Head(nodes) \in st.visited THEN st
                ELSE visit(graph, Head(nodes), st))

\* function topologicalSort(graph)
topologicalSort(graph) ==
  LET st == visitAll(graph, GraphKeys(graph), SortStart)
  IN IF st.error # "none"
     THEN [status |-> "threw", result |-> <<>>, error |-> st.error]
     ELSE [status |-> "returned", result |-> st.result, error |-> "none"]

\* the seed names, and the graphs built from the seed files: no name twice,
\* each seed with a list of the names its module exports as dependencies
SeedNames == {"a", "b", "c"}
DependencyLists ==
  {d \in UNION {[1..n -> SeedNames] : n \in 0..MaxDeps} :
     \A i, j \in 1..Len(d) : i # j => d[i] # d[j]}
SeedOrders ==
  {ks \in UNION {[1..n -> SeedNames] : n \in 0..MaxSeeds} :
     \A i, j \in 1..Len(ks) : i # j => ks[i] # ks[j]}
SeedGraphs ==
  UNION {{[i \in 1..Len(ks) |-> [name |-> ks[i], dependencies |-> ds[i]]] :
            ds \in [1..Len(ks) -> DependencyLists]} : ks \in SeedOrders}

TopologicalSort ==
  /\ orderedSeeds = NotSorted
  /\ orderedSeeds' = topologicalSort(seedGraph)
  /\ UNCHANGED <<seedGraph, nonTopoVars>>

\* topologicalSort called once on every graph.
InitTopo ==
  /\ InitWith({[t \in Tasks |-> "query"]}, {DefaultRetryAttempts}, 0, {"e1"},
              {<<>>}, FALSE)
  /\ RepoIdle({0}, 0)
  /\ RewriteIdle({<<>>})
  /\ LifeIdle(0)
  /\ SwitchIdle({PlainConfig})
  /\ SaveIdle(0)
  /\ BackoffIdle({Omitted}, {Omitted})
  /\ ObsIdle
  /\ GenIdle({PlainModel}, {"sqlite"})
  /\ TailIdleExcept({"topo"})
  /\ TopoIdle(SeedGraphs)

NextTopo ==
  \/ TopologicalSort

SpecTopo == InitTopo /\ [][NextTopo]_vars

\* ------------------------------------------------ Repository and the cache
\* Cache.get / Cache.set / Cache.invalidate on a connected Redis, within the
\* 60 seconds an entry lives
cacheGet(store, key) == store[key]
cacheSet(store, key, value) == [store EXCEPT ![key] = value]
invalidate(store, keys) ==
  [k \in DOMAIN store |-> IF k \in keys THEN NoRow ELSE store[k]]

\* QueryBuilder.execute(client, cache, cacheKey): the cached rows if there are
\* any, else the rows the query returns, stored when there is one
execute(store, row, key) ==
  IF cacheGet(store, key).present
  THEN [result |-> cacheGet(store, key), store |-> store, hit |-> TRUE]
  ELSE [result |-> row,
        store |-> IF row.present THEN cacheSet(store, key, row) ELSE store,
        hit |-> FALSE]

\* Repository.findOne(id, options)
findOne(store, table, id, relations) ==
  execute(store, table[id], findOneKey(id, relations))

\* the application calls findOne(id, { relations })
CacheFindOne ==
  /\ cCalls < MaxCacheCalls
  /\ \E id \in CacheIds, rel \in RelationOptions :
       LET found == findOne(cStore, cRow, id, rel)
       IN /\ cStore' = found.store
          /\ cFound' = [called |-> TRUE, id |-> id, value |-> found.result,
                        row |-> cRow[id], hit |-> found.hit, after |-> cChanges]
  /\ cCalls' = cCalls + 1
  /\ UNCHANGED <<cRow, cStrategy, cOut, cChanges, nonCacheVars>>

\* update(id, entity): before = findOne(id); _update: the UPDATE statement,
\* result = findOne(id), cache.invalidate(cacheKeys) and, in write-through
\* mode, cache.set(`findOne:<table>:<id>`, [result], 60)
CacheUpdate ==
  /\ cCalls < MaxCacheCalls
  /\ cCalls' = cCalls + 1
  /\ \E id \in CacheIds, d \in 1..MaxCacheData :
       LET before == findOne(cStore, cRow, id, NoRelations)
           table == IF cRow[id].present THEN [cRow EXCEPT ![id] = LiveRow(d)]
                    ELSE cRow
           result == findOne(before.store, table, id, NoRelations)
           dropped == invalidate(result.store, changeKeys(id))
       IN IF ~before.result.present \/ ~result.result.present
          THEN \* UPDATE_ERROR: the transaction is rolled back
               /\ cStore' = before.store
               /\ cOut' = [op |-> "update", status |-> "rejected",
                           value |-> NoRow, before |-> cRow[id]]
               /\ UNCHANGED <<cRow, cChanges>>
          ELSE /\ cRow' = table
               /\ cStore' = IF cStrategy = "write-through"
                            THEN cacheSet(dropped, writeThroughKey(id), result.result)
                            ELSE dropped
               /\ cOut' = [op |-> "update", status |-> "resolved",
                           value |-> result.result, before |-> cRow[id]]
               /\ cChanges' = cChanges + 1
  /\ UNCHANGED <<cStrategy, cFound, nonCacheVars>>

\* delete(id): before = findOne(id); _delete: the DELETE statement and
\* cache.invalidate([`find:<table>`, `findOne:<table>:<id>`])
CacheDelete ==
  /\ cCalls < MaxCacheCalls
  /\ cCalls' = cCalls + 1
  /\ \E id \in CacheIds :
       LET before == findOne(cStore, cRow, id, NoRelations)
       IN IF ~before.result.present
          THEN \* DELETE_ERROR
               /\ cStore' = before.store
               /\ cOut' = [op |-> "delete", status |-> "rejected",
                           value |-> NoRow, before |-> cRow[id]]
               /\ UNCHANGED <<cRow, cChanges>>
          ELSE /\ cRow' = [cRow EXCEPT ![id] = NoRow]
               /\ cStore' = invalidate(before.store, changeKeys(id))
               /\ cOut' = [op |-> "delete", status |-> "resolved",
                           value |-> NoRow, before |-> cRow[id]]
               /\ cChanges' = cChanges + 1
  /\ UNCHANGED <<cStrategy, cFound, nonCacheVars>>

\* One repository with the cache enabled on a MySQL client; the application
\* calls findOne, update and delete one after the other.
InitCache ==
  /\ InitWith({[t \in Tasks |-> "query"]}, {DefaultRetryAttempts}, 0, {"e1"},
              {<<>>}, FALSE)
  /\ dialect = "mysql"
  /\ RepoIdle({0}, 0)
  /\ RewriteIdle({<<>>})
  /\ LifeIdle(0)
  /\ SwitchIdle({PlainConfig})
  /\ SaveIdle(0)
  /\ BackoffIdle({Omitted}, {Omitted})
  /\ ObsIdle
  /\ GenIdle({PlainModel}, {"sqlite"})
  /\ TailIdleExcept({"cache"})
  /\ CacheIdle([CacheIds -> {NoRow} \cup {LiveRow(d) : d \in 1..MaxCacheData}],
               {"cache-aside", "write-through"})

NextCache ==
  \/ CacheFindOne
  \/ CacheUpdate
  \/ CacheDelete

SpecCache == InitCache /\ [][NextCache]_vars

\* ------------------------------------- DBClient (client.ts with migrationQuery)
\* enum DBType, and a tag that is none of its members
DBTypes == {"postgres", "mysql", "sqlite"}
ForeignTag == "mariadb"
FrameConfigs ==
  [type : DBTypes \cup {ForeignTag}, connectionString : {"app.db"}]

\* initializeClient(config): the handle opened and the config object after it
\*   if (isSQLiteConfig(config)) ... else if (isMySQLConfig(config)) ...
\*   else if (config.type = DBType.Postgres) { this.client = new Pool(...) }
initializeClientOf(config) ==
  IF config.type = "sqlite" THEN [client |-> "Database", config |-> config]
  ELSE IF config.type = "mysql" THEN [client |-> "mysql.Pool", config |-> config]
  ELSE [client |-> "pg.Pool", config |-> [config EXCEPT !.type = "postgres"]]

\* migrationQuery(query, params) on the pool-level client: the config object
\* after the call.  A closed client throws at isMySQLPool(null).
\*   if (this.client instanceof Database) ...
\*   else if (isMySQLPool(this.client) || (...)) ...
\*   else if (this.config.type = DBType.Postgres) ...
migrationQueryOf(handle, config) ==
  IF handle = "Database" THEN config
  ELSE IF handle = "null" THEN config
  ELSE IF handle = "mysql.Pool" THEN config
  ELSE [config EXCEPT !.type = "postgres"]

\* new DBClient(config)
FrameConstruct ==
  /\ fClient = NotConstructed
  /\ fClient' = initializeClientOf(fConfig).client
  /\ fConfig' = initializeClientOf(fConfig).config
  /\ fLog' = Append(fLog, "new")
  /\ UNCHANGED <<fSupplied, nonFrameVars>>

\* a call on the client has room in the behaviour
FrameCall(name) ==
  /\ fClient # NotConstructed
  /\ Len(fLog) <= MaxFrameCalls
  /\ fLog' = Append(fLog, name)

\* query(): branches on this.client and on this.config.type === ...
FrameQuery ==
  /\ FrameCall("query")
  /\ UNCHANGED <<fConfig, fSupplied, fClient, nonFrameVars>>

FrameMigrationQuery ==
  /\ FrameCall("migrationQuery")
  /\ fConfig' = migrationQueryOf(fClient, fConfig)
  /\ UNCHANGED <<fSupplied, fClient, nonFrameVars>>

\* transaction(callback): the transaction-scoped client is built with
\* this.config and an existing connection, so its constructor does not call
\* initializeClient; its query and migrationQuery calls (BEGIN, the
\* callback's statements, COMMIT or ROLLBACK) run on a PoolConnection or
\* PoolClient, for which migrationQuery takes its second branch.
FrameTransaction ==
  /\ FrameCall("transaction")
  /\ UNCHANGED <<fConfig, fSupplied, fClient, nonFrameVars>>

\* close(): this.client = null
FrameClose ==
  /\ FrameCall("close")
  /\ fClient' = "null"
  /\ UNCHANGED <<fConfig, fSupplied, nonFrameVars>>

\* A caller builds a config, constructs a client with it and calls query,
\* migrationQuery, transaction and close in any order.
InitFrame ==
  /\ InitWith({[t \in Tasks |-> "query"]}, {DefaultRetryAttempts}, 0, {"e1"},
              {<<>>}, FALSE)
  /\ dialect = "sqlite"
  /\ RepoIdle({0}, 0)
  /\ RewriteIdle({<<>>})
  /\ LifeIdle(0)
  /\ SwitchIdle({PlainConfig})
  /\ SaveIdle(0)
  /\ BackoffIdle({Omitted}, {Omitted})
  /\ ObsIdle
  /\ GenIdle({PlainModel}, {"sqlite"})
  /\ TailIdleExcept({"frame"})
  /\ FrameIdle(FrameConfigs)

NextFrame ==
  \/ FrameConstruct
  \/ FrameQuery
  \/ FrameMigrationQuery
  \/ FrameTransaction
  \/ FrameClose

SpecFrame == InitFrame /\ [][NextFrame]_vars

\* ------------------------------------------------------------------ claims
Count(L, e) == Cardinality({i \in 1..Len(L) : L[i] = e})
Has(L, e) == \E i \in 1..Len(L) : L[i] = e
Settled(t) == pc[t] = "done"
NetTx(t) == kind[t] = "tx" /\ dialect \in Networked

\* C1: on a networked client, when the callback threw after N successful
\* writes, a ROLLBACK was issued on the connection that received BEGIN and the
\* writes, and none of the N writes is visible once transaction() has rejected.
C1_ThrownWritesInvisible ==
  \A t \in Tasks :
    (NetTx(t) /\ Settled(t) /\ cbThrew[t] # "no") =>
      /\ outcome[t].status = "rejected"
      /\ Has(log[t], "ROLLBACK")
      /\ Cardinality(stmtConns[t]) = 1
      /\ \A w \in writes[t] : ~Visible(w)

\* C2: on the embedded backend the wrapped block is atomic: no statement of
\* the callback is issued after the native wrapper's commit, every write is
\* committed when the callback resolves and none persists when it rejects.
C2_SqliteBlockAtomic ==
  \A t \in Tasks :
    (kind[t] = "tx" /\ dialect = "sqlite") =>
      /\ \A i, j \in 1..Len(log[t]) :
           (log[t][i] = "committed" /\ log[t][j] = "STMT") => j < i
      /\ (Settled(t) /\ outcome[t].status = "resolved") => writes[t] \subseteq committed
      /\ (Settled(t) /\ outcome[t].status = "rejected") => writes[t] \cap committed = {}

\* C3: a networked transaction() call that checked out a connection has
\* released it exactly once when it settles, however it ends; a connection is
\* checked out only while the call that holds it is in flight, so none is
\* checked out once every call has settled.
C3_ReleasedExactlyOnce ==
  /\ \A t \in Tasks :
       /\ releases[t] <= acquired[t]
       /\ Settled(t) => releases[t] = acquired[t]
       /\ NetTx(t) /\ Settled(t) => acquired[t] = 1
       /\ (conn[t] # "none") <=> (releases[t] < acquired[t])
  /\ checkedOut = {conn[t] : t \in {u \in Tasks : conn[u] # "none"}}
  /\ (\A t \in Tasks : Settled(t)) => checkedOut = {}

\* a transaction whose callback threw and whose ROLLBACK failed has settled
C3_Witness ==
  \E t \in Tasks :
    /\ NetTx(t) /\ Settled(t) /\ cbThrew[t] # "no"
    /\ outcome[t] # Rejected(CallbackError)
    /\ releases[t] = 1

\* C4: a pool-level query() whose statement failed on every attempt executed
\* it exactly retryAttempts times and rejected with a QUERY_ERROR whose
\* message carries that attempt count and the last underlying error message.
C4_RetryExhaustion ==
  \A t \in Tasks :
    (kind[t] = "query" /\ Settled(t) /\ outcome[t].status = "rejected") =>
      /\ execCount[t] = retryAttempts
      /\ outcome[t].error.code = "QUERY_ERROR"
      /\ retryAttempts \in outcome[t].error.counts
      /\ outcome[t].error.cause = lastCause[t]

\* C5: when the callback of a networked transaction() threw E, the call
\* rejects with E, also when the ROLLBACK statement failed.
C5_CallbackErrorReported ==
  \A t \in Tasks :
    (NetTx(t) /\ Settled(t) /\ cbThrew[t] # "no") =>
      outcome[t] = Rejected(CallbackError)

\* C6: a networked unit of work goes not-started -> begun -> committed or
\* rolled-back: BEGIN is issued first and has succeeded before any statement
\* of the callback, COMMIT is issued only right after the callback returned,
\* ROLLBACK only right after an error, the unit never ends both committed and
\* rolled back, and nothing is issued after it reached a terminal state.
C6_UnitOfWorkStateMachine ==
  \A t \in Tasks :
    NetTx(t) =>
      LET L == log[t] IN
        /\ Len(L) > 0 => L[1] = "BEGIN"
        /\ Count(L, "BEGIN") <= 1
        /\ \A i \in 1..Len(L) :
             /\ L[i] = "begun" => i = 2
             /\ L[i] \in {"STMT", "RETURN"} => (i > 2 /\ L[2] = "begun")
             /\ L[i] = "COMMIT" =>
                  (i > 1 /\ L[i - 1] = "RETURN" /\ ~Has(SubSeq(L, 1, i), "ERROR"))
             /\ L[i] = "ROLLBACK" => (i > 1 /\ L[i - 1] = "ERROR")
             /\ L[i] = "committed" => Has(SubSeq(L, 1, i), "COMMIT")
             /\ L[i] = "rolled-back" => Has(SubSeq(L, 1, i), "ROLLBACK")
             /\ L[i] \in {"committed", "rolled-back"} => i = Len(L)
        /\ ~(Has(L, "committed") /\ Has(L, "rolled-back"))
        /\ Has(L, "committed") => outcome[t].status = "resolved"

\* a unit of work whose COMMIT failed after two statements ended rolled back
C6_Witness ==
  \E t \in Tasks :
    /\ NetTx(t)
    /\ Count(log[t], "STMT") = 2
    /\ Has(log[t], "COMMIT")
    /\ Has(log[t], "rolled-back")

C8_NestedCallInv ==
  \A t \in Tasks :
    NetTx(t) =>
      /\ acquired[t] <= 1
      /\ Count(log[t], "BEGIN") <= 1
      /\ Count(log[t], "COMMIT") <= 1
      /\ Count(log[t], "ROLLBACK") <= 1
      /\ cbCalls[t] = nested[t] + (IF Has(log[t], "begun") THEN 1 ELSE 0)
      /\ depth[t] = 1 => (conn[t] # "none" /\ nested[t] > 0)
      /\ (Settled(t) /\ cbThrew[t] = "inner") =>
           /\ Count(log[t], "ROLLBACK") = 1
           /\ ~Has(log[t], "committed")
           /\ outcome[t].status = "rejected"
           /\ Has(log[t], "rolled-back") => \A w \in writes[t] : ~Visible(w)
C8_NestedCallStep ==
  \A t \in Tasks :
    nested'[t] # nested[t] =>
      /\ nested'[t] = nested[t] + 1
      /\ cbCalls'[t] = cbCalls[t] + 1
      /\ depth[t] = 0 /\ depth'[t] = 1
      /\ UNCHANGED <<log, conn, checkedOut, acquired, releases, stmtConns,
                     inTx, pending, committed, pc, outcome>>
C8_NestedFlattened == []C8_NestedCallInv /\ [][C8_NestedCallStep]_vars

\* the inner callback wrote and threw, and the enclosing transaction rolled back
C8_Witness ==
  \E t \in Tasks :
    /\ NetTx(t) /\ Settled(t)
    /\ nested[t] = 1 /\ cbCalls[t] = 2
    /\ cbThrew[t] = "inner"
    /\ writes[t] # {}
    /\ Has(log[t], "rolled-back")

\* C9: a run of runMigrations started after a run with the same list has
\* resolved executes no up statement and adds no ledger row; when it resolves
\* it has skipped every migration of the list.
C9_SecondRunAppliesNothing ==
  \A t \in Tasks :
    (kind[t] = "migrate" /\ priorRuns[t] # {}) =>
      /\ upExec[t] = 0
      /\ rowsAdded[t] = 0
      /\ (Settled(t) /\ outcome[t].status = "resolved") => skipped[t] = 1..Len(migs)

\* C10: when an up statement of migration m failed in the first run, the run
\* rejects without moving past m, and none of m's up statements nor its ledger
\* row is in the database once the run has settled.
C10_FailedMigrationLeavesNothing ==
  \A t \in Tasks :
    (kind[t] = "migrate" /\ Settled(t) /\ upFailed[t] # 0
       /\ \A u \in Tasks \ {t} : pc[u] = "idle") =>
      /\ outcome[t].status = "rejected"
      /\ mi[t] = upFailed[t]
      /\ \A i \in 1..MaxUp : ~Visible(UpWrite(upFailed[t], i))
      /\ ~Visible(LedgerRow(curName[t]))

LastOp == opsLog[Len(opsLog)]
Settles(names) ==
  /\ rpc = "idle"
  /\ Len(opsLog) = Len(names)
  /\ \A i \in 1..Len(names) : opsLog[i].name = names[i] /\ opsLog[i].ok

\* C11: after create, update, update have resolved on a versioned entity its
\* history holds exactly 3 rows with strictly increasing version numbers, and
\* history(id) returns exactly these rows in that order.
C11_HistoryMonotone ==
  Settles(<<"create", "update", "update">>) =>
    /\ Len(history) = 3
    /\ \A i, j \in 1..Len(history) : i < j => history[i].version < history[j].version
    /\ historyOf(history) = {history}

\* C12: at most one history row of the entity has valid_to NULL, after any
\* sequence of create, update, delete, upsert and rollback.
C12_OneCurrentRow ==
  Cardinality({i \in 1..Len(history) : history[i].valid_to = "NULL"}) <= 1

\* C13: with two history rows written by create at T1 and update at T2,
\* T1 < T2, asOf(id, date) returns null for date < T1, the T1 row for
\* T1 <= date < T2 and the T2 row for date >= T2.
C13_AsOfCorrect ==
  (/\ Settles(<<"create", "update">>)
   /\ Len(history) = 2
   /\ history[1].valid_from < history[2].valid_from) =>
    \A date \in 0..(MaxClock + 1) :
      asOf(history, date) =
        {IF date < history[1].valid_from THEN 0
         ELSE IF date < history[2].valid_from THEN 1 ELSE 2}

\* C14: when rollback(id, 2) has resolved on an existing entity whose newest
\* history version was 3, the live row equals the snapshot of version 2 and
\* one history row tagged update was appended, whose version is 4 and so
\* greater than every earlier version of the entity.
C14_RollbackAppendsNewest ==
  (/\ rpc = "idle" /\ Len(opsLog) > 0
   /\ LastOp.name = "rollback" /\ LastOp.ok /\ LastOp.target = 2
   /\ preLive.present
   /\ \E i \in 1..Len(preHistory) : preHistory[i].version = 3
   /\ \A i \in 1..Len(preHistory) : preHistory[i].version <= 3) =>
    LET n == Len(history) IN
      /\ n = Len(preHistory) + 1
      /\ SubSeq(history, 1, n - 1) = preHistory
      /\ history[n].op = "update"
      /\ history[n].version = 4
      /\ \A i \in 1..(n - 1) : history[i].version < history[n].version
      /\ \E i \in RowsOfVersion(preHistory, 2) :
           live = LiveRow(preHistory[i].data)

\* C15: a create, update or delete that resolved has committed exactly one new
\* history row, tagged insert, update or delete, together with its live-table
\* change; one that rejected has left the live table and the history as they
\* were.
C15_HistoryWithChange ==
  (/\ rpc = "idle" /\ Len(opsLog) > 0
   /\ LastOp.name \in {"create", "update", "delete"}) =>
    IF LastOp.ok
      THEN /\ Len(history) = Len(preHistory) + 1
           /\ SubSeq(history, 1, Len(preHistory)) = preHistory
           /\ history[Len(history)].op =
                (CASE LastOp.name = "create" -> "insert"
                   [] LastOp.name = "update" -> "update"
                   [] LastOp.name = "delete" -> "delete")
           /\ live = LiveAfter(rop, preLive)
      ELSE /\ history = preHistory
           /\ live = preLive

\* C16: on Postgres query() hands the driver a text in which the i-th "?"
\* from the left has become "$i", every other character is unchanged, and the
\* parameter list is the one it was given.
C16_PlaceholdersNumbered ==
  (sent.ran /\ dialect = "postgres") =>
    /\ Len(sent.text) = Len(sql)
    /\ \A i \in 1..Len(sql) :
         sent.text[i] = IF sql[i] = "?" THEN Dollar(Marks(sql, i)) ELSE Chr(sql[i])
    /\ sent.params = params

\* C17: a query() called after a close() has completed fails with an
\* initialization error, not a query-execution error, and executes no SQL.
C17_QueryAfterCloseInitError ==
  \A t \in Tasks :
    (lres[t].call = "query" /\ lres[t].late) =>
      /\ lres[t].code = "INIT_ERROR"
      /\ lres[t].runs = 0

\* C18: every close() on a client resolves without error, no handle is
\* released more than once however often close() is called, and once a
\* close() has completed the client stays closed.
C18_CloseIdempotent ==
  /\ endCalls <= 1
  /\ closed > 0 => (client = "null" /\ ~handleOpen)
  /\ \A t \in Tasks : lres[t].call = "close" => lres[t].code = "ok"

\* A close() called after a close() has completed finds the handle gone:
\* it releases nothing, does not wait, resolves, and leaves the client closed.
CloseAfterCloseIsNoop ==
  /\ lateEnds = 0
  /\ closed > 0 => (client = "null" /\ ~handleOpen /\ endCalls >= 1)
  /\ \A t \in Tasks :
       /\ (lcall[t].call = "close" /\ lcall[t].late) => lpc[t] # "ending"
       /\ (lres[t].call = "close" /\ lres[t].late) => lres[t].code = "ok"

\* C19: once a close() has completed the prepared-statement cache of the
\* client is empty.
C19_CacheEmptyAfterClose ==
  closed > 0 => preparedStatements = {}

\* the value a config gives for a retry parameter, or the default where the
\* config omits it
Given(value, fallback) == IF value = Omitted THEN fallback ELSE value

\* C20: when switchConnection(newConfig) completes, the handle held before is
\* closed, the prepared-statement cache is empty, retryAttempts, retryDelay
\* and maxJitter are newConfig's values or 3/1000/100 where it omits them, and
\* the client holds an open handle of newConfig's dialect.
C20_SwitchConnection ==
  [][(swPc = "closed" /\ swPc' = "idle" /\ swLast' = "ok") =>
       /\ swPrev # 0 => ~swOpen'[swPrev]
       /\ swCache' = {}
       /\ swRetry'.retryAttempts = Given(swArg.retryAttempts, DefaultRetryAttempts)
       /\ swRetry'.retryDelay = Given(swArg.retryDelay, DefaultRetryDelay)
       /\ swRetry'.maxJitter = Given(swArg.maxJitter, DefaultMaxJitter)
       /\ swClient' # 0
       /\ swOpen'[swClient']
       /\ swKind'[swClient'] = IF swArg.type = "sqlite" THEN "db" ELSE "sql"]_vars

\* statements a settled or running savepoint() call has issued
SpIssued(l, i, text) == Len(l) >= i /\ l[i].text = text /\ l[i].name = spName

\* C21 (as the code has it): SAVEPOINT name is issued, and has succeeded,
\* before the callback runs.  If the callback resolves, RELEASE SAVEPOINT name
\* is issued next; when that statement succeeds savepoint() returns the
\* callback's result and issues nothing more, and when it fails ROLLBACK TO
\* SAVEPOINT name is issued and savepoint() rejects with the release's error.
\* If the callback rejects with E, ROLLBACK TO SAVEPOINT name is issued next
\* and savepoint() rejects with E whether or not that statement succeeded.
C21_SavepointProtocol ==
  /\ spPc \in {"callback", "release", "rollback"} =>
       (SpIssued(spLog, 1, "SAVEPOINT") /\ spLog[1].ok)
  /\ spPc = "callback" => Len(spLog) = 1
  /\ (spPc = "idle" /\ spOut.callback.status = "resolved") =>
       /\ SpIssued(spOut.issued, 1, "SAVEPOINT")
       /\ SpIssued(spOut.issued, 2, "RELEASE SAVEPOINT")
       /\ IF spOut.issued[2].ok
            THEN /\ Len(spOut.issued) = 2
                 /\ spOut.status = "resolved"
                 /\ spOut.value = spOut.callback.value
            ELSE /\ Len(spOut.issued) = 3
                 /\ SpIssued(spOut.issued, 3, "ROLLBACK TO SAVEPOINT")
                 /\ spOut.status = "rejected"
                 /\ spOut.value = "QUERY_ERROR"
  /\ (spPc = "idle" /\ spOut.callback.status = "rejected") =>
       /\ Len(spOut.issued) = 2
       /\ SpIssued(spOut.issued, 1, "SAVEPOINT")
       /\ SpIssued(spOut.issued, 2, "ROLLBACK TO SAVEPOINT")
       /\ spOut.status = "rejected"
       /\ spOut.value = spOut.callback.value

\* the callback rejected, the rollback statement failed, and savepoint()
\* rejected with the callback's error
C21_Witness ==
  /\ spPc = "idle"
  /\ spOut.callback.status = "rejected"
  /\ Len(spOut.issued) = 2
  /\ ~spOut.issued[2].ok
  /\ spOut.status = "rejected"
  /\ spOut.value = spOut.callback.value

\* C21 as stated: whenever the callback resolved, savepoint() returns the
\* callback's result; whenever it rejected with E, savepoint() rejects with E
\* after issuing ROLLBACK TO SAVEPOINT name.
C21_AsStated ==
  /\ spPc \in {"callback", "release", "rollback"} =>
       (SpIssued(spLog, 1, "SAVEPOINT") /\ spLog[1].ok)
  /\ (spPc = "idle" /\ spOut.callback.status = "resolved") =>
       /\ SpIssued(spOut.issued, 2, "RELEASE SAVEPOINT")
       /\ spOut.status = "resolved"
       /\ spOut.value = spOut.callback.value
  /\ (spPc = "idle" /\ spOut.callback.status = "rejected") =>
       /\ SpIssued(spOut.issued, 2, "ROLLBACK TO SAVEPOINT")
       /\ spOut.status = "rejected"
       /\ spOut.value = spOut.callback.value

\* C22: query() resolves only with the rows of an attempt that succeeded, that
\* attempt is the first one to succeed and the last one made, and when all
\* retryAttempts attempts failed query() rejects and resolves with nothing.
C22_ResolvesOnlyWithRows ==
  /\ boOut.status = "resolved" =>
       /\ boPc = "done"
       /\ boExecs # <<>>
       /\ boExecs[Len(boExecs)].ok
       /\ boOut.value = boExecs[Len(boExecs)].rows
       /\ \A i \in 1..(Len(boExecs) - 1) : ~boExecs[i].ok
  /\ (\E i \in 1..Len(boExecs) : boExecs[i].ok) =>
       (boOut.status = "resolved" /\ boExecs[Len(boExecs)].ok)
  /\ (boPc = "done" /\ \A i \in 1..Len(boExecs) : ~boExecs[i].ok) =>
       /\ boOut = [status |-> "rejected", value |-> "QUERY_ERROR"]
       /\ Len(boExecs) = retryAttempts
  /\ \A i \in 1..Len(boExecs) : boExecs[i].attempt = i /\ i <= retryAttempts

\* the first attempt failed, the second succeeded and its rows were returned
C22_Witness ==
  /\ boOut.status = "resolved"
  /\ Len(boExecs) = 2
  /\ ~boExecs[1].ok
  /\ boOut.value = "rows2"

\* every attempt failed and query() rejected
C22_WitnessExhausted ==
  /\ boOut.status = "rejected"
  /\ Len(boExecs) = retryAttempts
  /\ retryAttempts >= 2

\* C23: the n-th wait follows failed attempt n with n < retryAttempts and
\* lasts between retryDelay * 2^(n-1) and retryDelay * 2^(n-1) + maxJitter
\* milliseconds; attempt n+1 is made only after it; the last failed attempt
\* is followed by no wait.
C23_BackoffBounds ==
  /\ \A n \in 1..Len(boWaits) :
       /\ boWaits[n].after = n
       /\ n < retryAttempts
       /\ ~boExecs[n].ok
       /\ boWaits[n].ms >= retryDelay * Pow2(n - 1)
       /\ boWaits[n].ms <= retryDelay * Pow2(n - 1) + maxJitter
  /\ boPc = "try" => (Len(boWaits) = boAttempt - 1 /\ Len(boExecs) = boAttempt - 1)
  /\ boPc = "wait" => (Len(boWaits) = boAttempt /\ Len(boExecs) = boAttempt)
  /\ boPc = "done" => Len(boWaits) = Len(boExecs) - 1
  /\ boOut.status = "rejected" => Len(boWaits) = retryAttempts - 1

\* three attempts failed: two waits, the second twice the base delay at
\* least, then the error without a third wait
C23_Witness ==
  /\ boOut.status = "rejected"
  /\ retryAttempts = 3
  /\ Len(boWaits) = 2
  /\ boWaits[2].ms >= 2 * retryDelay
  /\ boWaits[2].ms > boWaits[1].ms

\* runs of runMigrations
IsRun(t) == kind[t] = "migrate"
\* the ledger row of the m-th migration of the list is among the writes W
RowIn(m, W) ==
  \E time \in 0..MaxTime : LedgerRow(MigrationName(migs[m], m, time)) \in W
\* all up statements of the m-th migration are among the writes W
UpsIn(m, W) == \A i \in 1..Len(migs[m].up) : UpWrite(m, i) \in W

\* C24: a run creates the ledger table before anything else and takes the
\* migrations in list order; the up statements of a migration run in list
\* order and its ledger row is inserted after them; the run reaches
\* migration m+1 only when the ledger row of m is committed; and a run none
\* of whose statements the database failed has, for every migration it did
\* not find in the ledger, executed all up statements and inserted the row.
C24_MigrationsInOrder ==
  \A t \in Tasks :
    IsRun(t) =>
      /\ mi[t] >= 1 => LedgerTable \in committed
      /\ \A m \in 1..Len(migs) :
           /\ mi[t] > m => RowIn(m, committed)
           /\ RowIn(m, writes[t]) => UpsIn(m, writes[t])
           /\ \A i \in 1..Len(migs[m].up) :
                UpWrite(m, i) \in writes[t] =>
                  \A j \in 1..(i - 1) : UpWrite(m, j) \in writes[t]
           /\ (UpWrite(m, 1) \in writes[t] \/ RowIn(m, writes[t])) =>
                (m <= mi[t] /\ \A k \in 1..(m - 1) : k \in skipped[t] \/ RowIn(k, writes[t]))
      /\ (Settled(t) /\ failsLeft = MaxFail) =>
           /\ outcome[t].status = "resolved"
           /\ \A m \in 1..Len(migs) :
                m \in skipped[t] \/ (UpsIn(m, writes[t]) /\ RowIn(m, writes[t]))

\* C25: a run has called close() on the client it constructed exactly once
\* when it settles, however it settles, and not before its loop is over.
C25_ClientClosedOnce ==
  \A t \in Tasks :
    IsRun(t) =>
      /\ closeCalls[t] = IF Settled(t) THEN 1 ELSE 0
      /\ Settled(t) => outcome[t].status \in {"resolved", "rejected"}

\* a run rejected by a failed up statement, and one rejected before any
\* transaction, have both closed their client
C25_Witness ==
  /\ \E t \in Tasks :
       Settled(t) /\ outcome[t].status = "rejected" /\ upFailed[t] # 0
         /\ closeCalls[t] = 1
  /\ \E t \in Tasks :
       Settled(t) /\ outcome[t].status = "rejected" /\ acquired[t] = 0
         /\ cbCalls[t] = 0 /\ closeCalls[t] = 1

\* ---- generateMigration
\* the fixed primary-key definition of the id column, dialect by dialect
FixedIdDefinition(dbType) ==
  CASE dbType = "sqlite" -> "id INTEGER PRIMARY KEY AUTOINCREMENT"
    [] dbType = "postgres" -> "id SERIAL PRIMARY KEY"
    [] dbType = "mysql" -> "id INTEGER PRIMARY KEY AUTO_INCREMENT"

\* C26: in the statement generateMigration returned, the definition of the
\* column named id is the dialect's fixed auto-increment primary-key
\* definition, whatever type the column declares: 'id INTEGER PRIMARY KEY
\* AUTOINCREMENT' on SQLite, 'id SERIAL PRIMARY KEY' on Postgres and
\* 'id INTEGER PRIMARY KEY AUTO_INCREMENT' on MySQL.
C26_IdColumnIsFixedPK ==
  gOut.kind = "resolved" =>
    \A i \in 1..Len(gColumnDefs) :
      gColumnDefs[i].of = "id" => gColumnDefs[i].def = FixedIdDefinition(gDbType)

\* how a call for a model without a table name must have settled
RejectsUndecorated(out) ==
  /\ (out # NoMigration /\ Falsy(gModel.tableName)) =>
       /\ out.kind = "rejected"
       /\ out.error.type = "StabilizeError"
       /\ out.error.code = "MIGRATION_ERROR"
       /\ out.error.message = "Model not decorated with @Model"
       /\ out.up = <<>>
       /\ out.down = <<>>
  /\ out.kind = "resolved" =>
       /\ ~Falsy(gModel.tableName)
       /\ out.down = <<"DROP TABLE IF EXISTS " \o gModel.tableName>>

\* C27: generateMigration for a model without a table name (none, or the
\* empty string) rejects with the StabilizeError MIGRATION_ERROR 'Model not
\* decorated with @Model' and returns no SQL; a call that returns SQL has
\* built it with the model's own, non-empty table name.
C27_NoTableNameRejects == RejectsUndecorated(gOut) /\ RejectsUndecorated(gOutV1)

\* a model with columns but an empty table name was rejected
C27_Witness ==
  /\ gOut.kind = "rejected"
  /\ gModel.tableName = ""
  /\ Len(gModel.columns) = MaxCols

\* column definitions separated by ', '
RECURSIVE CommaList(_)
CommaList(texts) ==
  IF Len(texts) = 0 THEN ""
  ELSE IF Len(texts) = 1 THEN texts[1]
  ELSE texts[1] \o ", " \o CommaList(Tail(texts))

\* '<sqlName> <type>', then ' NOT NULL', then ' UNIQUE'
PlainDefinition(e) ==
  e.col.name \o " " \o mapDataTypeToSql(e.col.type, gDbType)
    \o (IF "required" \in gModel.validators[e.key] THEN " NOT NULL" ELSE "")
    \o (IF "unique" \in gModel.validators[e.key] THEN " UNIQUE" ELSE "")

\* C28: the CREATE TABLE statement up[0] lists one definition per column of
\* the column map, in the map's insertion order, joined by ', '; the
\* definition of a column not named id is its SQL name, a space and its type
\* in the dialect, followed by ' NOT NULL' when its validators include
\* required and then by ' UNIQUE' when they include unique.
C28_ColumnDefinitions ==
  gOut.kind = "resolved" =>
    /\ Len(gColumnDefs) = Len(gModel.columns)
    /\ \A i \in 1..Len(gColumnDefs) :
         /\ gColumnDefs[i].of = gModel.columns[i].col.name
         /\ gModel.columns[i].col.name # "id" =>
              gColumnDefs[i].def = PlainDefinition(gModel.columns[i])
    /\ gOut.up = <<"CREATE TABLE IF NOT EXISTS " \o gModel.tableName \o " ("
                    \o CommaList(DefTexts(gColumnDefs)) \o ")">>

\* the statement of the model whose map holds user_name (required, unique)
\* before id, for SQLite
C28_Witness ==
  /\ gOut.kind = "resolved"
  /\ gDbType = "sqlite"
  /\ gOut.up = <<"CREATE TABLE IF NOT EXISTS users (user_name TEXT NOT NULL UNIQUE, id INTEGER PRIMARY KEY AUTOINCREMENT)">>

\* how often a column is defined
DefsOf(defs, name) == Cardinality({i \in 1..Len(defs) : defs[i].of = name})

\* the soft-delete rule, for the definitions a call ended with
SoftDeleteOnce(out, defs) ==
  (out.kind = "resolved" /\ ~Falsy(gModel.softDeleteField)) =>
    /\ IF gModel.softDeleteField \in KeysOf(gModel.columns)
       THEN /\ Len(defs) = Len(gModel.columns)
            /\ DefsOf(defs, Lookup(gModel.columns, gModel.softDeleteField).name) = 1
       ELSE Len(defs) = Len(gModel.columns) + 1
    /\ \A i, j \in 1..Len(defs) : i # j => defs[i].of # defs[j].of

\* C29: for a model with a soft-delete field the CREATE TABLE defines that
\* column exactly once: it is appended when the column map does not declare
\* it, it is not appended when the map does, and no column is defined twice.
C29_SoftDeleteColumnOnce ==
  /\ SoftDeleteOnce(gOut, gColumnDefs)
  /\ SoftDeleteOnce(gOutV1, gColumnDefsV1)

\* C30: for a versioned model the migration holds a second up/down pair,
\* which creates and drops <table>_history.
C30_HistoryTablePair ==
  (gOut.kind = "resolved" /\ gModel.versioned) =>
    /\ Len(gOut.up) = 2
    /\ Len(gOut.down) = 2
    /\ \E i \in 1..Len(gOut.down) :
         gOut.down[i] = "DROP TABLE IF EXISTS " \o gModel.tableName \o "_history"

\* ---- mapDataTypeToSql
\* the column types the three dialects use
ColumnTypes ==
  {"TEXT", "INTEGER", "BIGINT", "REAL", "DOUBLE PRECISION", "DECIMAL",
   "BOOLEAN", "DATE", "TIMESTAMP", "JSONB", "UUID", "BYTEA", "VARCHAR(255)",
   "INT", "FLOAT", "DOUBLE", "DECIMAL(10,2)", "TINYINT(1)", "DATETIME", "JSON",
   "CHAR(36)", "BLOB", "NUMERIC"}

\* an argument that names no member of DataTypes
UnknownDt(dt) ==
  CASE dt.tag = "string" ->
         \A i \in 1..Len(DataTypeNames) :
           toLowerCase(dt.s) # toLowerCase(DataTypeNames[i])
    [] dt.tag = "number" -> ~IsMember(dt.n)
    [] OTHER -> TRUE

\* C31: for every dialect and every argument, an enum member, any other
\* number or a string, known or unknown, the type mapping returns a column
\* type and does not throw, and an unknown type maps to TEXT.
C31_TypeMappingTotal ==
  mOut # NoMapOut =>
    /\ mOut.kind = "returned"
    /\ mOut.sql \in ColumnTypes
    /\ UnknownDt(mDt) => mOut.sql = "TEXT"

\* ---- Repository calls and the history table
VerSettled == vPc = "idle" /\ vCalls > 0

\* C32: on a versioned model, rollback(id, version) for a version that has
\* no history row of that id rejects with ROLLBACK_ERROR and leaves the live
\* table and the history table as they were.
C32_RollbackMissingVersion ==
  (/\ VerSettled
   /\ versioned
   /\ vCall.name = "rollback"
   /\ VerRows(vPre.hist, vCall.version) = {}) =>
    /\ vOut = VerRejected("ROLLBACK_ERROR")
    /\ vLive = vPre.live
    /\ vHist = vPre.hist

\* C33: on a model that is not versioned no call issues a statement against
\* <table>_history, and asOf, history and rollback reject with
\* VERSIONING_ERROR without having issued any statement.
C33_NotVersionedNoHistory ==
  ~versioned =>
    /\ \A i \in 1..Len(vLog) : vLog[i] \notin HistoryStatements
    /\ vHist = {}
    /\ (VerSettled /\ vCall.name \in VersioningNames) =>
         vOut = VerRejected("VERSIONING_ERROR") /\ vLog = <<>>

\* a write on a model that is not versioned has committed its row, and a
\* rollback on it was rejected
C33_Witness ==
  /\ ~versioned
  /\ VerSettled
  /\ vCalls = MaxVerCalls
  /\ vCall.name = "rollback"
  /\ vOut = VerRejected("VERSIONING_ERROR")
  /\ vLive # 0

\* ---- timestamps
\* the param a statement binds to a key
ParamOf(stmt, k) ==
  LET at == {i \in 1..Len(stmt.keys) : stmt.keys[i] = k}
  IN IF at = {} THEN "unbound" ELSE stmt.params[CHOOSE i \in at : TRUE]

\* a configured timestamp field the entity does not supply is bound to the
\* generated timestamp
StampedWithNow(stmt, field) ==
  (/\ stmt.sent
   /\ ~Falsy(field)
   /\ field \in tsColumns
   /\ ~HasKey(tsEntity, field)) => ParamOf(stmt, field) = Now

\* C34: with timestamps configured, the UPDATE of update(id, entity) binds
\* the current time to the updatedAt column when the entity does not supply
\* it, and the INSERT of create binds it to createdAt and to updatedAt when
\* they are not supplied; the bound value is never undefined or null.
C34_TimestampsBound ==
  /\ StampedWithNow(tsUpdate, tsConfig.updatedAt)
  /\ StampedWithNow(tsCreate, tsConfig.createdAt)
  /\ StampedWithNow(tsCreate, tsConfig.updatedAt)

\* ---- topologicalSort
\* the seeds of the graph, and the dependencies a seed names
Seeds == {seedGraph[i].name : i \in 1..Len(seedGraph)}
Needs(n) ==
  {DependenciesOf(seedGraph, n)[i] : i \in 1..Len(DependenciesOf(seedGraph, n))}
\* a seed names a dependency that is not in the graph
MissingDependency == \E n \in Seeds : Needs(n) \ Seeds # {}
\* seeds reached from n along dependencies, in k steps or fewer
RECURSIVE Within(_, _)
Within(n, k) ==
  IF k = 0 THEN {}
  ELSE LET near == Within(n, k - 1)
       IN near \cup (Needs(n) \cap Seeds)
               \cup UNION {Needs(m) \cap Seeds : m \in near}
HasCycle == \E n \in Seeds : n \in Within(n, Cardinality(Seeds))

\* the array holds every seed once, each after all of its dependencies
SortedOnce ==
  /\ orderedSeeds.status = "returned"
  /\ Len(orderedSeeds.result) = Cardinality(Seeds)
  /\ {orderedSeeds.result[i] : i \in 1..Len(orderedSeeds.result)} = Seeds
  /\ \A i, j \in 1..Len(orderedSeeds.result) :
       orderedSeeds.result[j] \in Needs(orderedSeeds.result[i]) => j < i

\* C35 as stated: a graph with a cycle throws the circular-dependency error
\* and a graph with a missing dependency throws the not-found error.
C35_AsStated ==
  orderedSeeds # NotSorted =>
    /\ (~HasCycle /\ ~MissingDependency) => SortedOnce
    /\ HasCycle =>
         orderedSeeds.status = "threw"
           /\ orderedSeeds.error = "Circular dependency detected"
    /\ MissingDependency =>
         orderedSeeds.status = "threw"
           /\ orderedSeeds.error = "Dependency not found"

\* C35: for an acyclic graph with every dependency present topologicalSort
\* returns each seed once, after all of its dependencies.  For any other
\* graph it throws: the circular-dependency error when no dependency is
\* missing, the dependency-not-found error when there is no cycle, and one
\* of the two when the graph has both.
C35_TopologicalSort ==
  orderedSeeds # NotSorted =>
    IF ~HasCycle /\ ~MissingDependency THEN SortedOnce
    ELSE /\ orderedSeeds.status = "threw"
         /\ orderedSeeds.result = <<>>
         /\ orderedSeeds.error \in
              {"Circular dependency detected", "Dependency not found"}
         /\ ~MissingDependency => orderedSeeds.error = "Circular dependency detected"
         /\ ~HasCycle => orderedSeeds.error = "Dependency not found"

\* three seeds inserted in the reverse of their dependency order come out
\* in dependency order
C35_Witness ==
  /\ GraphKeys(seedGraph) = <<"a", "b", "c">>
  /\ Needs("a") = {"b"}
  /\ Needs("b") = {"c"}
  /\ orderedSeeds.status = "returned"
  /\ orderedSeeds.result = <<"c", "b", "a">>

\* ---- one callback invocation per transaction() call
\* invocations of the callback given to the task's own transaction() call:
\* every nested call invokes the callback it was given, once
OuterCalls(t) == cbCalls[t] - nested[t]

C36_AtMostOnceInv ==
  \A t \in Tasks :
    kind[t] = "tx" =>
      /\ OuterCalls(t) \in {0, 1}
      /\ (dialect \in Networked /\ ~Has(log[t], "begun")) => OuterCalls(t) = 0
C36_AtMostOnceStep ==
  \A t \in Tasks :
    (kind[t] = "tx" /\ cbCalls'[t] # cbCalls[t]) =>
      /\ cbCalls'[t] = cbCalls[t] + 1
      /\ \/ nested'[t] = nested[t] + 1
         \/ OuterCalls(t) = 0 /\ pc[t] \in {"txstart", "begin"}
      /\ ~Has(log[t], "ERROR")
      /\ cbThrew[t] = "no"
NoDriverFailure == failsLeft = MaxFail

\* C37: query() takes the path of the client's dialect on a
\* transaction-scoped client as on the pool-level client, so statements the
\* driver executes succeed inside a transaction too: a transaction whose
\* callback did not throw, run while the driver fails no attempt, resolves,
\* and no statement is rejected with the TypeError of the MySQL path.
C37_TxClientTakesDialectPath ==
  \A t \in Tasks :
    /\ (NetTx(t) /\ Settled(t) /\ cbThrew[t] = "no" /\ NoDriverFailure) =>
         outcome[t] = Resolved
    /\ outcome[t].error.cause # NotIterable

\* ---- two concurrent runs of runMigrations
\* the runs whose execution of the write w took effect for good: executed
\* outside a transaction (SQLite, once the wrapper has committed) or inside a
\* transaction that was committed
Effective(w) ==
  {t \in Tasks : w \in writes[t] /\ (dialect = "sqlite" \/ Has(log[t], "committed"))}
RaceRow == LedgerRow(MigrationName(migs[1], 1, 0))
BothDone == \A t \in Tasks : IsRun(t) /\ Settled(t)

\* C38: with two concurrent runs and one named migration, every up statement
\* takes effect at most once and the ledger never holds two rows of that
\* name; when both runs have ended and the driver failed no attempt, the
\* ledger holds exactly one row of that name.
C38_AppliedAtMostOnce ==
  /\ \A i \in 1..Len(migs[1].up) : Cardinality(Effective(UpWrite(1, i))) <= 1
  /\ Cardinality(Effective(RaceRow)) <= 1
  /\ (BothDone /\ NoDriverFailure) => Cardinality(Effective(RaceRow)) = 1

\* ---- findOne after update and delete, cache enabled
\* C39: after update(id) or delete(id) has completed, a findOne(id) served by
\* the cache returns the row as it is in the table, never an earlier one, and
\* every key under which findOne stores the row of id is among the keys that
\* update and delete invalidate.
C39_NoStaleFindOne ==
  /\ (cFound.called /\ cFound.after > 0 /\ cFound.hit) => cFound.value = cFound.row
  /\ \A id \in CacheIds, rel \in RelationOptions :
       findOneKey(id, rel) \in changeKeys(id)

\* ---- the DBConfig object is left as supplied
\* C40: the client never modifies the DBConfig it was given: after
\* construction and after any sequence of query, migrationQuery, transaction
\* and close calls every field of the config, config.type included, has the
\* value supplied, whatever dialect tag was supplied.
C40_ConfigUnmodified == fConfig = fSupplied

====
